---- MODULE Spec2Model ----
(***************************************************************************)
(* A model of the Nix store core (libstore): the path-info query pipeline  *)
(* of Store (in-memory LRU, disk cache, backend), Store::queryValidPaths   *)
(* and copyPaths.                                                          *)
(*                                                                         *)
(* The module holds several specifications over one set of variables; each *)
(* specification drives one subsystem and leaves the variables of the      *)
(* others at their initial values:                                         *)
(*   SpecCache  Store::isValidPath / Store::queryPathInfo and the caches   *)
(*   SpecQV     Store::queryValidPaths (SpecQVFair adds the scheduling     *)
(*              fairness of the pool and of the callbacks)                 *)
(*   SpecCopy   copyPaths / copyStorePath over processGraph                *)
(*   SpecNarHash, SpecInfo, SpecDrv, SpecCa, SpecOpen, SpecReg, SpecFetch, *)
(*   SpecSubst, SpecCb, SpecLinks, SpecRemote                              *)
(*              single operations, their input and result held in ev       *)
(*   SpecDh     drvHashes under concurrent pathDerivationModulo            *)
(*   SpecSsh    the connection pool of LegacySSHStore                      *)
(*   SpecDb     the registry database                                      *)
(*   SpecPr     one PathReferences object                                  *)
(*   SpecPm     the pool workers of copyPaths and pathsMap                 *)
(*                                                                         *)
(* Environment: the interrupt flag polled by checkInterrupt() is never     *)
(* set; the runs modelled are the uninterrupted ones.                      *)
(***************************************************************************)
EXTENDS Integers, Sequences, FiniteSets, TLC

VARIABLES
    \* ---- Store (query pipeline) ----
    now,          \* the clock read by isKnownNow() and by the disk cache
    hasDiskCache, \* Store::diskCache != nullptr
    assertsPath,  \* the backend is LegacySSHStore (asserts path == info->path)
    backend,      \* hash-part -> name registered at the backend ("" = absent)
    lru,          \* Store::state.pathInfoCache, least recently used first
    disk,         \* NarInfoDiskCache rows of this store, by hash-part
    lastOp,       \* the last isValidPath / queryPathInfo call and its outcome
    absentRec,    \* hash-parts recorded absent in a cache, no add since
    negLeft,      \* hash-part -> ticks left of the negative TTL since the
                  \* backend last answered absent through queryPathInfo
    crashed,      \* the process aborted on a failed assert
    \* ---- Store::queryValidPaths ----
    qv,
    \* ---- copyPaths ----
    cp,
    \* ---- operations without state ----
    ev,           \* one evaluation of such an operation: its input and result
    \* ---- drvHashes and the threads in pathDerivationModulo ----
    dh,
    \* ---- LegacySSHStore: the connection pool ----
    ssh,
    \* ---- the registry database (ValidPaths, Refs) ----
    db,
    \* ---- one PathReferences object ----
    pr

cacheVars == <<now, hasDiskCache, assertsPath, backend, lru, disk, lastOp,
               absentRec, negLeft, crashed>>
auxVars == <<dh, ssh, db, pr>>
vars == <<now, hasDiskCache, assertsPath, backend, lru, disk, lastOp,
          absentRec, negLeft, crashed, qv, cp, ev, dh, ssh, db, pr>>

(***************************************************************************)
(* Bounds of the model.                                                    *)
(***************************************************************************)
MaxTime == 2            \* the clock runs 0..MaxTime
TtlNegative == 1        \* settings.ttlNegativeNarInfoCache, in ticks
TtlPositive == 2        \* settings.ttlPositiveNarInfoCache, in ticks
LruCapacity == 1        \* pathInfoCacheSize

HashParts == {"h1", "h2"}
Names == {"foo", "bar"}

(***************************************************************************)
(* Store paths and path infos.                                             *)
(***************************************************************************)
StorePath(h, n) == [hashPart |-> h, name |-> n]
StorePaths == {StorePath(h, n) : h \in HashParts, n \in Names}
NoPath == StorePath("", "")

\* std::shared_ptr<const ValidPathInfo>: nullptr or an info about a path
NullInfo == [path |-> NoPath]
Info(p) == [path |-> p]

PathInfoCacheValueEpoch(v) == [time_point |-> 0, value |-> v]

\* Store::PathInfoCacheValue { time_point = now(), value }
PathInfoCacheValue(v) == [time_point |-> now, value |-> v]

didExist(cv) == cv.value # NullInfo

isKnownNowLate(cv) ==
    LET ttl == IF didExist(cv) THEN TtlPositive ELSE TtlNegative
    IN  now <= cv.time_point + ttl

isKnownNowEarly(cv) ==
    LET ttl == IF didExist(cv) THEN TtlPositive ELSE TtlNegative
    IN  now + 1 < cv.time_point + ttl

isKnownNow(cv) ==
    LET ttl == IF didExist(cv) THEN TtlPositive ELSE TtlNegative
    IN  now < cv.time_point + ttl

(***************************************************************************)
(* LRUCache<std::string, PathInfoCacheValue>: a sequence of entries, the   *)
(* least recently used first.                                              *)
(***************************************************************************)
LruErase(l, k) == SelectSeq(l, LAMBDA e : e.key # k)

LruHas(l, k) == \E i \in 1..Len(l) : l[i].key = k

LruEntry(l, k) == l[CHOOSE i \in 1..Len(l) : l[i].key = k]

\* get(): the entry, moved to the most-recently-used end
LruPromote(l, k) ==
    IF LruHas(l, k) THEN Append(LruErase(l, k), LruEntry(l, k)) ELSE l

\* upsert(): replaces the key's entry, retiring the oldest one when full
LruUpsert(l, k, cv) ==
    IF LruCapacity = 0 THEN l
    ELSE LET l1 == LruErase(l, k)
             l2 == IF Len(l1) >= LruCapacity THEN Tail(l1) ELSE l1
         IN  Append(l2, [key |-> k, cv |-> cv])

(***************************************************************************)
(* NarInfoDiskCache: one row per hash-part, with the time it was written.  *)
(***************************************************************************)
NoRow == [present |-> FALSE, time_point |-> 0, value |-> NullInfo]

\* a row is served while its TTL (positive or negative) has not elapsed
DiskRowFresh(row) ==
    now < row.time_point + (IF row.value # NullInfo THEN TtlPositive ELSE TtlNegative)

\* lookupNarInfo(): oUnknown for no row or an expired one
lookupNarInfo(d, hashPart) ==
    LET row == d[hashPart]
    IN  IF ~row.present \/ ~DiskRowFresh(row)
        THEN [first |-> "oUnknown", second |-> NullInfo]
        ELSE IF row.value = NullInfo
        THEN [first |-> "oInvalid", second |-> NullInfo]
        ELSE [first |-> "oValid", second |-> row.value]

upsertNarInfo(d, hashPart, info) ==
    [d EXCEPT ![hashPart] = [present |-> TRUE, time_point |-> now, value |-> info]]

(***************************************************************************)
(* The backend: LegacySSHStore::queryPathInfoUncached.  The remote answers *)
(* with the empty string (nullptr) or with an info; `fail` is an I/O error *)
(* on the connection.                                                      *)
(***************************************************************************)
queryPathInfoUncached(path, fail) ==
    LET p == backend[path.hashPart]
    IN  IF fail THEN [kind |-> "exception", info |-> NullInfo]
        ELSE IF p = NoPath THEN [kind |-> "value", info |-> NullInfo]
        ELSE IF assertsPath /\ path # p THEN [kind |-> "abort", info |-> NullInfo]
        ELSE [kind |-> "value", info |-> Info(p)]

(***************************************************************************)
(* The outcome of one call: the caches after it, what the caller got, the  *)
(* levels consulted in order, the number of queryPathInfoUncached calls,   *)
(* whether a does-not-exist value was recorded and whether the backend     *)
(* said absent.                                                            *)
(***************************************************************************)
Out(l, d, kind, info, trace, uncached, negRec, absentAns) ==
    [lru |-> l, disk |-> d, kind |-> kind, info |-> info, trace |-> trace,
     uncached |-> uncached, negRec |-> negRec, absentAns |-> absentAns]

\* Store::queryPathInfo(pathOrCa, callback): what the callback receives
queryPathInfo(l, d, storePath, fail) ==
    LET hashPart == storePath.hashPart
        found == LruHas(l, hashPart)
        l1 == LruPromote(l, hashPart)
        dres == lookupNarInfo(d, hashPart)
        fut == queryPathInfoUncached(storePath, fail)
        trace3 == IF hasDiskCache THEN <<"lru", "disk", "backend">>
                  ELSE <<"lru", "backend">>
    IN  IF found /\ isKnownNow(LruEntry(l, hashPart).cv)
        THEN LET res == LruEntry(l, hashPart).cv
             IN  IF ~didExist(res)
                 THEN Out(l1, d, "InvalidPath", NullInfo, <<"lru">>, 0,
                          FALSE, FALSE)
                 ELSE Out(l1, d, "ok", res.value, <<"lru">>, 0,
                          FALSE, FALSE)
        ELSE IF hasDiskCache /\ dres.first # "oUnknown"
        THEN LET l2 == LruUpsert(l1, hashPart,
                           PathInfoCacheValue(IF dres.first = "oInvalid"
                                              THEN NullInfo ELSE dres.second))
             IN  IF dres.first = "oInvalid" \/ dres.second.path # storePath
                 THEN Out(l2, d, "InvalidPath", NullInfo, <<"lru", "disk">>, 0,
                          dres.first = "oInvalid", FALSE)
                 ELSE Out(l2, d, "ok", dres.second, <<"lru", "disk">>, 0,
                          FALSE, FALSE)
        ELSE IF fut.kind = "abort"
        THEN Out(l1, d, "abort", NullInfo, trace3, 1, FALSE, FALSE)
        ELSE IF fut.kind = "exception"
        THEN Out(l1, d, "Error", NullInfo, trace3, 1, FALSE, FALSE)
        ELSE LET info == fut.info
                 d2 == IF hasDiskCache THEN upsertNarInfo(d, hashPart, info) ELSE d
                 l2 == LruUpsert(l1, hashPart, PathInfoCacheValue(info))
             IN  IF info = NullInfo \/ info.path # storePath
                 THEN Out(l2, d2, "InvalidPath", NullInfo, trace3, 1,
                          info = NullInfo, info = NullInfo)
                 ELSE Out(l2, d2, "ok", info, trace3, 1, FALSE, FALSE)

\* Store::isValidPathUncached: the default, over queryPathInfo
isValidPathUncached(l, d, storePath, fail) ==
    LET q == queryPathInfo(l, d, storePath, fail)
    IN  IF q.kind = "ok" THEN [q EXCEPT !.kind = "true"]
        ELSE IF q.kind = "InvalidPath" THEN [q EXCEPT !.kind = "false"]
        ELSE q

\* Store::isValidPath
isValidPath(l, d, storePath, fail) ==
    LET hashPart == storePath.hashPart
        found == LruHas(l, hashPart)
        l1 == LruPromote(l, hashPart)
        dres == lookupNarInfo(d, hashPart)
        u == isValidPathUncached(l1, d, storePath, fail)
        trace3 == IF hasDiskCache THEN <<"lru", "disk", "backend">>
                  ELSE <<"lru", "backend">>
    IN  IF found /\ isKnownNow(LruEntry(l, hashPart).cv)
        THEN LET res == LruEntry(l, hashPart).cv
             IN  Out(l1, d, IF didExist(res) THEN "true" ELSE "false", NullInfo,
                     <<"lru">>, 0, FALSE, FALSE)
        ELSE IF hasDiskCache /\ dres.first # "oUnknown"
        THEN LET l2 == LruUpsert(l1, hashPart,
                           PathInfoCacheValue(IF dres.first = "oInvalid"
                                              THEN NullInfo ELSE dres.second))
             IN  Out(l2, d, IF dres.first = "oValid" THEN "true" ELSE "false",
                     NullInfo, <<"lru", "disk">>, 0,
                     dres.first = "oInvalid", FALSE)
        ELSE IF hasDiskCache /\ u.kind = "false"
        THEN [u EXCEPT !.disk = upsertNarInfo(u.disk, hashPart, NullInfo),
                       !.trace = trace3, !.negRec = TRUE]
        ELSE [u EXCEPT !.trace = trace3]

(***************************************************************************)
(* SpecCache: calls of isValidPath and queryPathInfo on one store, the     *)
(* clock, and paths being added at the backend.                            *)
(***************************************************************************)
NoOp == [n |-> 0, op |-> "none", path |-> NoPath, kind |-> "none",
         info |-> NullInfo, trace |-> <<>>, uncached |-> 0]

QvIdle == [pc |-> "off"]
NoEval == [op |-> "none"]
CpIdle == [pc |-> "off"]
DhIdle == [pc |-> "off"]
SshIdle == [pc |-> "off"]
DbIdle == [pc |-> "off"]
PrIdle == [pc |-> "off"]

\* the subsystems a specification does not drive
AuxIdle == dh = DhIdle /\ ssh = SshIdle /\ db = DbIdle /\ pr = PrIdle

InitCache ==
    /\ now = 0
    /\ hasDiskCache \in BOOLEAN
    /\ assertsPath \in BOOLEAN
    /\ backend \in [HashParts -> StorePaths \cup {NoPath}]
    /\ \A h \in HashParts : backend[h] # NoPath => backend[h].hashPart = h
    /\ lru = <<>>
    /\ disk = [h \in HashParts |-> NoRow]
    /\ lastOp = NoOp
    /\ absentRec = {}
    /\ negLeft = [h \in HashParts |-> 0]
    /\ crashed = FALSE
    /\ qv = QvIdle
    /\ cp = CpIdle
    /\ ev = NoEval
    /\ AuxIdle

\* the store after a call whose outcome is o
Apply(op, p, o) ==
    /\ lru' = o.lru
    /\ disk' = o.disk
    /\ lastOp' = [n |-> 1 - lastOp.n, op |-> op, path |-> p, kind |-> o.kind,
                  info |-> o.info, trace |-> o.trace, uncached |-> o.uncached]
    /\ absentRec' = IF o.negRec THEN absentRec \cup {p.hashPart} ELSE absentRec
    /\ negLeft' = IF o.absentAns THEN [negLeft EXCEPT ![p.hashPart] = TtlNegative]
                  ELSE negLeft
    /\ crashed' = (o.kind = "abort")
    /\ UNCHANGED <<now, hasDiskCache, assertsPath, backend, qv, cp, ev, auxVars>>

CallQueryPathInfo ==
    /\ ~crashed
    /\ \E p \in StorePaths, fail \in BOOLEAN :
          Apply("queryPathInfo", p, queryPathInfo(lru, disk, p, fail))

CallIsValidPath ==
    /\ ~crashed
    /\ \E p \in StorePaths, fail \in BOOLEAN :
          Apply("isValidPath", p, isValidPath(lru, disk, p, fail))

\* LegacySSHStore::addToStore: the remote registers the path; the caches of
\* the store object are left alone
AddToStore ==
    /\ ~crashed
    /\ \E p \in StorePaths :
          /\ backend[p.hashPart] = NoPath
          /\ backend' = [backend EXCEPT ![p.hashPart] = p]
          /\ absentRec' = absentRec \ {p.hashPart}
    /\ UNCHANGED <<now, hasDiskCache, assertsPath, lru, disk, lastOp, negLeft,
                   crashed, qv, cp, ev, auxVars>>

\* std::chrono::steady_clock advances
Tick ==
    /\ ~crashed
    /\ now < MaxTime
    /\ now' = now + 1
    /\ negLeft' = [h \in HashParts |-> IF negLeft[h] > 0 THEN negLeft[h] - 1 ELSE 0]
    /\ UNCHANGED <<hasDiskCache, assertsPath, backend, lru, disk, lastOp,
                   absentRec, crashed, qv, cp, ev, auxVars>>

NextCache == CallQueryPathInfo \/ CallIsValidPath \/ AddToStore \/ Tick

SpecCache == InitCache /\ [][NextCache]_vars

(***************************************************************************)
(* Properties of the query pipeline (SpecCache).                           *)
(***************************************************************************)
Range(f) == {f[i] : i \in DOMAIN f}

\* a call happened in this step
Called == lastOp'.n # lastOp.n

\* the key's LRU entry is there and its TTL has not elapsed
LruFreshFor(h) ==
    \E i \in 1..Len(lru) :
        /\ lru[i].key = h
        /\ now < lru[i].cv.time_point
                 + (IF lru[i].cv.value # NullInfo THEN TtlPositive ELSE TtlNegative)

\* the disk cache is configured and answers other than 'unknown'
DiskKnownFor(h) ==
    /\ hasDiskCache
    /\ disk[h].present
    /\ now < disk[h].time_point
             + (IF disk[h].value # NullInfo THEN TtlPositive ELSE TtlNegative)

Rank(level) == IF level = "lru" THEN 1 ELSE IF level = "disk" THEN 2 ELSE 3

\* C1: a queryPathInfo call for a key never delivers a ValidPathInfo whose
\* path differs from the store path of the key; a mismatched answer of the
\* backend or of a cache ends in InvalidPath, for that and every later query.
C1_NoMismatchedInfo ==
    (lastOp.op = "queryPathInfo" /\ lastOp.kind = "ok")
        => lastOp.info.path = lastOp.path

\* C4: isValidPath and queryPathInfo consult the levels in the order LRU,
\* disk cache, backend: the disk cache only when the LRU holds no still-fresh
\* entry for the hash-part, the backend only when in addition the disk cache
\* is not configured or answers 'unknown'.
C4_LevelOrder ==
    [][Called =>
        LET t == lastOp'.trace
            h == lastOp'.path.hashPart
        IN  /\ Len(t) >= 1 /\ t[1] = "lru"
            /\ \A i, j \in 1..Len(t) : i < j => Rank(t[i]) < Rank(t[j])
            /\ "disk" \in Range(t) => ~LruFreshFor(h)
            /\ "backend" \in Range(t) => (~LruFreshFor(h) /\ ~DiskKnownFor(h))
            /\ lastOp'.uncached > 0 => "backend" \in Range(t)]_vars

C4_Witness ==
    /\ lastOp.op = "isValidPath"
    /\ lastOp.trace = <<"lru", "disk", "backend">>
    /\ now > 0

\* C5 as claimed: after the backend answered 'absent' for a hash-part through
\* queryPathInfo the LRU (and the disk cache when configured) hold a
\* does-not-exist entry, and until the negative TTL elapses every further
\* queryPathInfo fails with InvalidPath and every isValidPath returns false
\* without invoking the backend again.
NegativeRecorded(h) ==
    /\ \E i \in 1..Len(lru') : lru'[i].key = h /\ lru'[i].cv.value = NullInfo
    /\ hasDiskCache => (disk'[h].present /\ disk'[h].value = NullInfo)

C5_Original ==
    [][Called =>
        LET h == lastOp'.path.hashPart
        IN  /\ (lastOp'.uncached = 1 /\ backend[h] = NoPath /\ lastOp'.kind # "Error")
                  => NegativeRecorded(h)
            /\ negLeft[h] > 0
                  => (lastOp'.kind \in {"InvalidPath", "false"} /\ lastOp'.uncached = 0)]_vars

LruHoldsAbsent(h) ==
    \E i \in 1..Len(lru) : lru[i].key = h /\ lru[i].cv.value = NullInfo

\* C5 as amended: the same, for the further queries made while the LRU still
\* holds the does-not-exist entry of the hash-part (it was not retired to
\* make room for another key) or while a disk cache is configured.
C5_NegativeCaching ==
    [][Called =>
        LET h == lastOp'.path.hashPart
        IN  /\ (lastOp'.uncached = 1 /\ backend[h] = NoPath /\ lastOp'.kind # "Error")
                  => NegativeRecorded(h)
            /\ (negLeft[h] > 0 /\ (LruHoldsAbsent(h) \/ hasDiskCache))
                  => (lastOp'.kind \in {"InvalidPath", "false"} /\ lastOp'.uncached = 0)]_vars

C5_Witness ==
    /\ lastOp.kind \in {"InvalidPath", "false"}
    /\ lastOp.uncached = 0
    /\ negLeft[lastOp.path.hashPart] > 0
    /\ backend[lastOp.path.hashPart] = lastOp.path

\* C6: once a hash-part has been recorded as absent in the caches, no later
\* isValidPath or queryPathInfo reports it present unless a path with that
\* hash-part was added in between.
C6_AbsentStaysAbsent ==
    lastOp.kind \in {"ok", "true"} => lastOp.path.hashPart \notin absentRec

\* C7: an LRU entry answers isValidPath or queryPathInfo only while
\* now < time_point + TTL (the positive TTL for an entry that exists, the
\* negative one for a does-not-exist entry); an entry whose TTL has elapsed
\* is not returned and the query goes on to the next level.
C7_LruTtl ==
    [][Called =>
        LET t == lastOp'.trace
            h == lastOp'.path.hashPart
        IN  /\ t = <<"lru">> =>
                \E i \in 1..Len(lru) :
                    /\ lru[i].key = h
                    /\ now < lru[i].cv.time_point
                             + (IF lru[i].cv.value # NullInfo
                                THEN TtlPositive ELSE TtlNegative)
                    /\ (lastOp'.kind \in {"ok", "true"}) = (lru[i].cv.value # NullInfo)
                    /\ lastOp'.kind = "ok" => lastOp'.info = lru[i].cv.value
            /\ (LruHas(lru, h) /\ ~LruFreshFor(h)) => Len(t) >= 2]_vars

C7_Witness ==
    /\ lastOp.trace = <<"lru">>
    /\ lastOp.kind = "false"
    /\ now >= 1

(***************************************************************************)
(* Store::queryValidPaths.  qv holds the State of the call (left, valid,   *)
(* exc), the thread pool (pending work items, running doQuery calls), the  *)
(* queries whose callback is still to come, and the controller's position. *)
(* outcome[p] is what queryPathInfo hands to the callback of path p.       *)
(***************************************************************************)
QvMaxPaths == 3         \* the input paths are a subset of 1..QvMaxPaths
QvPoolSize == 2         \* threads of the pool running doQuery at a time

QvUniverse == 1..QvMaxPaths
Outcomes == {"ok", "InvalidPath", "Error"}

InitQV ==
    /\ now = 0
    /\ hasDiskCache = FALSE
    /\ assertsPath = FALSE
    /\ backend = [h \in HashParts |-> NoPath]
    /\ lru = <<>>
    /\ disk = [h \in HashParts |-> NoRow]
    /\ lastOp = NoOp
    /\ absentRec = {}
    /\ negLeft = [h \in HashParts |-> 0]
    /\ crashed = FALSE
    /\ cp = CpIdle
    /\ ev = NoEval
    /\ AuxIdle
    /\ \E paths \in SUBSET QvUniverse :
       \E outcome \in [paths -> Outcomes] :
          qv = [pc |-> "enqueue",
                paths |-> paths,
                outcome |-> outcome,
                toEnqueue |-> paths,
                pending |-> {},
                running |-> {},
                started |-> {},
                cbDone |-> {},
                left |-> Cardinality(paths),     \* State{paths.size(), ...}
                valid |-> {},
                exc |-> 0,
                result |-> {},
                raised |-> 0]

\* the body of the callback of path p, under the lock of state_
CallbackNoCatch(q, p) ==
    [q EXCEPT !.valid = IF q.outcome[p] = "ok" THEN q.valid \cup {p} ELSE q.valid,
              !.exc = IF q.outcome[p] # "ok" THEN p ELSE q.exc,
              !.left = q.left - 1,
              !.cbDone = q.cbDone \cup {p}]

Callback(q, p) ==
    [q EXCEPT !.valid = IF q.outcome[p] = "ok" THEN q.valid \cup {p} ELSE q.valid,
              !.exc = IF q.outcome[p] = "Error" THEN p ELSE q.exc,
              !.left = q.left - 1,
              !.cbDone = q.cbDone \cup {p}]

\* the controller's test `if (!state->left)'
DrainedPool(q) == q.pending = {} /\ q.running = {}

Drained(q) == q.left = 0

\* for (auto & path : paths) pool.enqueue(std::bind(doQuery, path));
QvEnqueue ==
    /\ qv.pc = "enqueue"
    /\ qv.toEnqueue # {}
    /\ LET p == CHOOSE x \in qv.toEnqueue : \A y \in qv.toEnqueue : x <= y
       IN  qv' = [qv EXCEPT !.toEnqueue = @ \ {p}, !.pending = @ \cup {p}]
    /\ UNCHANGED <<cacheVars, cp, ev, auxVars>>

\* pool.process() is entered
QvProcess ==
    /\ qv.pc = "enqueue"
    /\ qv.toEnqueue = {}
    /\ qv' = [qv EXCEPT !.pc = "process"]
    /\ UNCHANGED <<cacheVars, cp, ev, auxVars>>

\* a thread of the pool takes a work item: doQuery starts the query
QvDoQuery(p) ==
    /\ p \in qv.pending
    /\ Cardinality(qv.running) < QvPoolSize
    /\ qv' = [qv EXCEPT !.pending = @ \ {p}, !.running = @ \cup {p},
                        !.started = @ \cup {p}]
    /\ UNCHANGED <<cacheVars, cp, ev, auxVars>>

\* the callback of p runs, inside doQuery or after it returned
QvCallback(p) ==
    /\ p \in qv.started \ qv.cbDone
    /\ qv.left > 0                                   \* assert(state->left)
    /\ LET q == Callback(qv, p)
       IN  qv' = IF q.left = 0 /\ q.pc = "wait"      \* wakeup.notify_one()
                 THEN [q EXCEPT !.pc = "check"] ELSE q
    /\ UNCHANGED <<cacheVars, cp, ev, auxVars>>

\* doQuery returns to the pool
QvDoQueryReturn(p) ==
    /\ p \in qv.running
    /\ qv' = [qv EXCEPT !.running = @ \ {p}]
    /\ UNCHANGED <<cacheVars, cp, ev, auxVars>>

\* pool.process() returns: no work item is pending or active
QvProcessDone ==
    /\ qv.pc = "process"
    /\ qv.pending = {} /\ qv.running = {}
    /\ qv' = [qv EXCEPT !.pc = "check"]
    /\ UNCHANGED <<cacheVars, cp, ev, auxVars>>

\* one round of the loop `while (true) { lock; if (!left) ...; wait }'
QvCheck ==
    /\ qv.pc = "check"
    /\ qv' = IF Drained(qv)
             THEN IF qv.exc # 0
                  THEN [qv EXCEPT !.pc = "raised", !.raised = qv.exc]
                  ELSE [qv EXCEPT !.pc = "returned", !.result = qv.valid]
             ELSE [qv EXCEPT !.pc = "wait"]
    /\ UNCHANGED <<cacheVars, cp, ev, auxVars>>

\* a condition variable may wake its waiter without a notify
QvSpuriousWakeup ==
    /\ qv.pc = "wait"
    /\ qv' = [qv EXCEPT !.pc = "check"]
    /\ UNCHANGED <<cacheVars, cp, ev, auxVars>>

NextQV ==
    \/ QvEnqueue
    \/ QvProcess
    \/ \E p \in QvUniverse : QvDoQuery(p)
    \/ \E p \in QvUniverse : QvCallback(p)
    \/ \E p \in QvUniverse : QvDoQueryReturn(p)
    \/ QvProcessDone
    \/ QvCheck
    \/ QvSpuriousWakeup

SpecQV == InitQV /\ [][NextQV]_vars

\* the pool runs its work items, every callback eventually runs, and the
\* controller thread is scheduled
SpecQVFair ==
    /\ InitQV /\ [][NextQV]_vars
    /\ WF_vars(QvEnqueue)
    /\ WF_vars(QvProcess)
    /\ WF_vars(\E p \in QvUniverse : QvDoQuery(p))
    /\ WF_vars(\E p \in QvUniverse : QvCallback(p))
    /\ WF_vars(\E p \in QvUniverse : QvDoQueryReturn(p))
    /\ WF_vars(QvProcessDone)
    /\ WF_vars(QvCheck)

QvOver == qv.pc \in {"returned", "raised"}

QvErrors == {p \in qv.paths : qv.outcome[p] = "Error"}

\* C2: if no per-path query fails with an error other than InvalidPath,
\* queryValidPaths returns exactly the input paths whose queryPathInfo
\* succeeded; an InvalidPath of one path is never raised by queryValidPaths
\* and removes no other path from the result, whatever the interleaving.
C2_ValidSubset ==
    /\ qv.pc = "returned" => qv.result = {p \in qv.paths : qv.outcome[p] = "ok"}
    /\ qv.pc = "raised" => qv.raised \in QvErrors
    /\ (QvOver /\ QvErrors = {}) => qv.pc = "returned"

C2_Witness ==
    /\ qv.pc = "returned"
    /\ \E p \in qv.paths : qv.outcome[p] = "InvalidPath"
    /\ Cardinality(qv.result) >= 2

CpPoolSize == 2         \* threads of the pool running a worker at a time

Ids == {"a", "b", "c"}

P(dir, id) == [dir |-> dir, id |-> id]

SrcDir == "s"
DstDir(c) == IF c.sameDir THEN "s" ELSE "d"

\* the reference graphs of the source paths (a path may refer to itself)
Graphs ==
    { [a |-> {}, b |-> {"a"}, c |-> {"b"}],
      [a |-> {"a"}, b |-> {"a"}, c |-> {"a", "b"}],
      [a |-> {}, b |-> {}, c |-> {"a"}] }

\* srcStore->queryPathInfo(path)
SrcInfo(c, id) ==
    [path |-> P(SrcDir, id),
     references |-> c.refs[id] \ {id},
     hasSelfReference |-> id \in c.refs[id],
     ca |-> id \in c.ca,
     narHash |-> id]

\* ValidPathInfo::fullContentAddressOpt: the name, the content address and the
\* references of the info
fullContentAddressOpt(info) ==
    [id |-> info.path.id, references |-> info.references,
     hasSelfReference |-> info.hasSelfReference]

\* Store::makeFixedOutputPathFromCA at the store with directory dir
makeFixedOutputPathFromCA(dir, fca) == P(dir, fca.id)

StorePathForDstAnyCa(c, info) ==
    IF info.ca
    THEN makeFixedOutputPathFromCA(DstDir(c), fullContentAddressOpt(info))
    ELSE info.path

\* the path checked and recorded for the destination (both lambdas)
StorePathForDst(c, info) ==
    IF info.ca /\ info.references = {} /\ ~info.hasSelfReference
    THEN makeFixedOutputPathFromCA(DstDir(c), fullContentAddressOpt(info))
    ELSE info.path

\* dstStore->isValidPath(path)
DstValid(c, path) == \E e \in c.dst : e.path = path

Active(c) ==
    {n \in Ids : c.npc[n] \in {"getEdges", "register", "process", "copying", "finish"}}

InitCopy ==
    /\ now = 0
    /\ hasDiskCache = FALSE
    /\ assertsPath = FALSE
    /\ backend = [h \in HashParts |-> NoPath]
    /\ lru = <<>>
    /\ disk = [h \in HashParts |-> NoRow]
    /\ lastOp = NoOp
    /\ absentRec = {}
    /\ negLeft = [h \in HashParts |-> 0]
    /\ crashed = FALSE
    /\ qv = QvIdle
    /\ ev = NoEval
    /\ AuxIdle
    /\ \E refs \in Graphs, ca \in {{}, {"a"}, {"a", "c"}},
          sameDir \in BOOLEAN, keepGoing \in BOOLEAN,
          roots \in {Ids, {"b", "c"}},
          dst \in {{}, {[path |-> P(SrcDir, "a"), narHash |-> "a"]},
                   {[path |-> P("d", "a"), narHash |-> "a"]}} :
          cp = [pc |-> "start",
                refs |-> refs, ca |-> ca, sameDir |-> sameDir,
                keepGoing |-> keepGoing, roots |-> roots, dst |-> dst,
                missing |-> {},
                pathsMap |-> [r \in {} |-> P(SrcDir, r)],
                left |-> {},
                grefs |-> [n \in Ids |-> {}],
                hasRefs |-> {},
                rrefs |-> [n \in Ids |-> {}],
                npc |-> [n \in Ids |-> "none"],
                edges |-> [n \in Ids |-> {}],
                nrDone |-> 0, nrFailed |-> 0, nrRunning |-> 0,
                quit |-> FALSE, exception |-> FALSE,
                checked |-> [n \in Ids |-> {}],
                copied |-> {}, foundValid |-> {}, failed |-> {},
                started |-> {}, earlyStart |-> {}]

\* copyPaths up to processGraph: dstStore->queryValidPaths, missing, the
\* identity entries of pathsMap, and the work items of the pool
CpStart ==
    /\ cp.pc = "start"
    /\ LET valid == {r \in cp.roots : DstValid(cp, P(SrcDir, r))}
           missing == cp.roots \ valid
           c1 == [cp EXCEPT !.missing = missing,
                            !.pathsMap = [r \in cp.roots |-> P(SrcDir, r)]]
       IN  cp' = IF missing = {}
                 THEN [c1 EXCEPT !.pc = "returned"]
                 ELSE [c1 EXCEPT !.pc = "graph",
                                 !.left = missing,
                                 !.npc = [n \in Ids |->
                                     IF n \in missing THEN "queued" ELSE "none"]]
    /\ UNCHANGED <<cacheVars, qv, ev, auxVars>>

\* a thread of the pool takes the work item of node n: worker(n) looks the
\* node up in graph->refs
CpTake(n) ==
    /\ cp.pc = "graph"
    /\ cp.npc[n] = "queued"
    /\ ~cp.quit
    /\ Cardinality(Active(cp)) < CpPoolSize
    /\ cp' = [cp EXCEPT !.npc[n] = IF n \in cp.hasRefs THEN "process" ELSE "getEdges"]
    /\ UNCHANGED <<cacheVars, qv, ev, auxVars>>

\* getEdges(n): the first lambda of copyPaths
CpGetEdges(n) ==
    /\ cp.npc[n] = "getEdges"
    /\ LET info == SrcInfo(cp, n)
           storePathForDst == StorePathForDst(cp, info)
           valid == DstValid(cp, storePathForDst)
           c1 == [cp EXCEPT !.pathsMap[n] = storePathForDst,
                            !.checked[n] = @ \cup {storePathForDst},
                            !.npc[n] = "register"]
       IN  cp' = IF valid
                 THEN [c1 EXCEPT !.nrDone = @ + 1,
                                 !.foundValid = @ \cup {n},
                                 !.edges[n] = {}]
                 ELSE [c1 EXCEPT !.edges[n] = info.references]
    /\ UNCHANGED <<cacheVars, qv, ev, auxVars>>

\* worker(n) records the edges to nodes still left, under the graph lock
CpRegister(n) ==
    /\ cp.npc[n] = "register"
    /\ LET refs == (cp.edges[n] \ {n}) \cap cp.left
       IN  cp' = [cp EXCEPT !.grefs[n] = refs,
                            !.rrefs = [r \in Ids |->
                                         IF r \in refs THEN cp.rrefs[r] \cup {n}
                                         ELSE cp.rrefs[r]],
                            !.hasRefs = @ \cup {n},
                            !.npc[n] = IF refs = {} THEN "process" ELSE "waiting"]
    /\ UNCHANGED <<cacheVars, qv, ev, auxVars>>

\* processNode(n), the second lambda of copyPaths, up to copyStorePath
CpProcess(n) ==
    /\ cp.npc[n] = "process"
    /\ LET info == SrcInfo(cp, n)
           storePathForDst == StorePathForDst(cp, info)
           valid == DstValid(cp, storePathForDst)
           deps == (cp.refs[n] \ {n}) \cap cp.missing
           c1 == [cp EXCEPT !.pathsMap[n] = storePathForDst,
                            !.checked[n] = @ \cup {storePathForDst}]
       IN  cp' = IF valid
                 THEN [c1 EXCEPT !.nrDone = @ + 1,
                                 !.foundValid = @ \cup {n},
                                 !.npc[n] = "finish"]
                 ELSE [c1 EXCEPT !.nrRunning = @ + 1,
                                 !.started = @ \cup {n},
                                 !.earlyStart =
                                     IF deps \subseteq (cp.copied \cup cp.foundValid)
                                     THEN @ ELSE @ \cup {n},
                                 !.npc[n] = "copying"]
    /\ UNCHANGED <<cacheVars, qv, ev, auxVars>>

\* copyStorePath(srcStore, dstStore, storePath) succeeds: dstStore->addToStore
\* registers the info, under the path the source has for it
CpCopyOk(n) ==
    /\ cp.npc[n] = "copying"
    /\ LET info == SrcInfo(cp, n)
       IN  cp' = [cp EXCEPT !.dst = @ \cup {[path |-> info.path,
                                             narHash |-> info.narHash]},
                            !.copied = @ \cup {n},
                            !.nrRunning = @ - 1,
                            !.nrDone = @ + 1,
                            !.npc[n] = "finish"]
    /\ UNCHANGED <<cacheVars, qv, ev, auxVars>>

CpCopyFailCountsDone(n) ==
    /\ cp.npc[n] = "copying"
    /\ LET c1 == [cp EXCEPT !.nrFailed = @ + 1,
                            !.nrDone = @ + 1,
                            !.nrRunning = @ - 1,
                            !.failed = @ \cup {n}]
       IN  cp' = IF cp.keepGoing
                 THEN [c1 EXCEPT !.npc[n] = "finish"]
                 ELSE [c1 EXCEPT !.npc[n] = "threw",
                                 !.quit = TRUE, !.exception = TRUE]
    /\ UNCHANGED <<cacheVars, qv, ev, auxVars>>

\* copyStorePath throws an Error
CpCopyFail(n) ==
    /\ cp.npc[n] = "copying"
    /\ LET c1 == [cp EXCEPT !.nrFailed = @ + 1,
                            !.nrRunning = @ - 1,
                            !.failed = @ \cup {n}]
       IN  cp' = IF cp.keepGoing
                 THEN [c1 EXCEPT !.npc[n] = "finish"]
                 ELSE [c1 EXCEPT !.npc[n] = "threw",
                                 !.quit = TRUE, !.exception = TRUE]
    /\ UNCHANGED <<cacheVars, qv, ev, auxVars>>

\* worker(n) after processNode returned: the nodes that waited for n only are
\* enqueued, and n leaves the graph
CpFinish(n) ==
    /\ cp.npc[n] = "finish"
    /\ LET ready == {r \in cp.rrefs[n] : cp.grefs[r] \ {n} = {}}
       IN  cp' = [cp EXCEPT !.grefs = [r \in Ids |->
                                         IF r \in cp.rrefs[n] THEN cp.grefs[r] \ {n}
                                         ELSE IF r = n THEN {} ELSE cp.grefs[r]],
                            !.npc = [r \in Ids |->
                                         IF r \in ready THEN "queued"
                                         ELSE IF r = n THEN "done" ELSE cp.npc[r]],
                            !.left = @ \ {n},
                            !.hasRefs = @ \ {n},
                            !.rrefs[n] = {}]
    /\ UNCHANGED <<cacheVars, qv, ev, auxVars>>

\* pool.process() returns or rethrows; processGraph checks that no node is left
CpEnd ==
    /\ cp.pc = "graph"
    /\ Active(cp) = {}
    /\ cp.quit \/ \A n \in Ids : cp.npc[n] # "queued"
    /\ cp' = [cp EXCEPT !.pc = IF cp.exception \/ cp.left # {}
                               THEN "raised" ELSE "returned"]
    /\ UNCHANGED <<cacheVars, qv, ev, auxVars>>

NextCopy ==
    \/ CpStart
    \/ \E n \in Ids : CpTake(n)
    \/ \E n \in Ids : CpGetEdges(n)
    \/ \E n \in Ids : CpRegister(n)
    \/ \E n \in Ids : CpProcess(n)
    \/ \E n \in Ids : CpCopyOk(n)
    \/ \E n \in Ids : CpCopyFail(n)
    \/ \E n \in Ids : CpFinish(n)
    \/ CpEnd

SpecCopy == InitCopy /\ [][NextCopy]_vars

(***************************************************************************)
(* C8.  During copyPaths, the copy of a missing path p (copyStorePath,     *)
(* hence dst.addToStore) starts only after every reference of p that is    *)
(* itself among the missing paths has been copied to the destination or    *)
(* found valid there, for both settings of keepGoing.  cp.earlyStart holds *)
(* the paths whose copy started while such a reference had neither been    *)
(* copied nor found valid.                                                 *)
(***************************************************************************)
C8_DependencyOrder == cp.earlyStart = {}

(***************************************************************************)
(* C9.  After copyPaths returns normally every root is valid at the        *)
(* destination, and for each entry p -> p' of the returned mapping the     *)
(* destination records for p' the narHash the source records for p.        *)
(***************************************************************************)
C9_PostCondition ==
    cp.pc = "returned" =>
        /\ \A r \in cp.roots : DstValid(cp, P(SrcDir, r))
        /\ \A r \in DOMAIN cp.pathsMap :
               \E e \in cp.dst : /\ e.path = cp.pathsMap[r]
                                 /\ e.narHash = SrcInfo(cp, r).narHash

(***************************************************************************)
(* C10 as stated.  When copyPaths returns, every missing path whose source *)
(* info has ca set is mapped to the path recomputed for the destination    *)
(* from its content address, and that path is the one that was checked for *)
(* validity there; paths without ca and paths that were valid at the       *)
(* destination from the start map to themselves.                           *)
(***************************************************************************)
C10_Original ==
    cp.pc = "returned" =>
        \A r \in cp.roots :
            IF r \in cp.missing /\ r \in cp.ca
            THEN /\ cp.pathsMap[r] = P(DstDir(cp), r)
                 /\ cp.checked[r] = {P(DstDir(cp), r)}
            ELSE cp.pathsMap[r] = P(SrcDir, r)

(***************************************************************************)
(* C10 amended.  Once a missing path has been looked at by copyPaths: if   *)
(* its source info has ca set, no references and no self-reference, it is  *)
(* mapped to the path recomputed for the destination and that path is the  *)
(* one checked for validity there; any other missing path is mapped to     *)
(* itself and is itself the path checked.  Paths valid at the destination  *)
(* from the start map to themselves.  When copyPaths returns, every        *)
(* missing path has been looked at.                                        *)
(***************************************************************************)
C10_Recomputed ==
    /\ \A r \in DOMAIN cp.pathsMap :
           LET expected == IF r \in cp.ca /\ cp.refs[r] = {}
                           THEN P(DstDir(cp), r) ELSE P(SrcDir, r)
           IN  IF r \in cp.missing /\ cp.checked[r] # {}
               THEN cp.pathsMap[r] = expected /\ cp.checked[r] = {expected}
               ELSE cp.pathsMap[r] = P(SrcDir, r)
    /\ cp.pc = "returned" => \A r \in cp.missing : cp.checked[r] # {}

\* copyPaths returned after mapping a content-addressed path without
\* references to another path, and one with references to itself
C10_Witness ==
    /\ cp.pc = "returned"
    /\ \E r \in cp.missing :
           r \in cp.ca /\ cp.refs[r] = {} /\ cp.pathsMap[r] # P(SrcDir, r)
    /\ \E r \in cp.missing :
           r \in cp.ca /\ cp.refs[r] # {} /\ ~cp.sameDir /\ cp.pathsMap[r] = P(SrcDir, r)

(***************************************************************************)
(* C11.  When the copy of a path fails with an Error, nrFailed grows by    *)
(* exactly one and nrDone does not grow for that path (a failed path is    *)
(* never counted copied or found valid).  With keepGoing the pool goes on: *)
(* it is never shut down and copyPaths returns after every missing path    *)
(* was copied, found valid or failed.  Without keepGoing the error leaves  *)
(* copyPaths, and a path whose work item no thread had taken when the      *)
(* error was raised is never taken afterwards.                             *)
(***************************************************************************)
C11_FailureCounting ==
    /\ [][cp'.failed # cp.failed =>
             /\ cp'.nrFailed = cp.nrFailed + 1
             /\ cp'.nrDone = cp.nrDone
             /\ cp'.exception = ~cp.keepGoing]_vars
    /\ [](cp.failed \cap (cp.copied \cup cp.foundValid) = {})
    /\ [](cp.keepGoing => (~cp.quit /\ cp.pc # "raised"))
    /\ []((cp.keepGoing /\ cp.pc = "returned") =>
             cp.missing \subseteq (cp.copied \cup cp.foundValid \cup cp.failed))
    /\ []((~cp.keepGoing /\ cp.failed # {} /\ cp.pc \notin {"start", "graph"}) =>
             cp.pc = "raised")
    /\ [][\A n \in Ids :
             (cp.exception /\ cp.npc[n] \in {"queued", "waiting"})
                 => cp'.npc[n] \in {"queued", "waiting"}]_vars

\* the error left copyPaths after one failed copy, with a path never taken
C11_Witness ==
    /\ cp.pc = "raised"
    /\ cp.nrFailed = 1
    /\ \E n \in Ids : cp.npc[n] \in {"queued", "waiting"}

(***************************************************************************)
(* Operations without state.  The specifications below leave the stores    *)
(* idle; each step evaluates one operation on one input and records the    *)
(* input and the result in ev.                                             *)
(***************************************************************************)
IdleStores ==
    /\ now = 0
    /\ hasDiskCache = FALSE
    /\ assertsPath = FALSE
    /\ backend = [h \in HashParts |-> NoPath]
    /\ lru = <<>>
    /\ disk = [h \in HashParts |-> NoRow]
    /\ lastOp = NoOp
    /\ absentRec = {}
    /\ negLeft = [h \in HashParts |-> 0]
    /\ crashed = FALSE
    /\ qv = QvIdle
    /\ cp = CpIdle

storeVars == <<cacheVars, qv, cp, auxVars>>

RECURSIVE SeqsUpTo(_, _)
SeqsUpTo(S, n) ==
    IF n = 0 THEN {<<>>}
    ELSE LET shorter == SeqsUpTo(S, n - 1)
         IN  shorter \cup {Append(q, x) : q \in {r \in shorter : Len(r) = n - 1}, x \in S}

(***************************************************************************)
(* copyStorePath when the source info has no narHash.  A NAR is a sequence *)
(* of pieces: "self" is an occurrence of the hash-part of the path, "0" a  *)
(* run of zeros of the same length, "x" anything else.                     *)
(***************************************************************************)
MaxNarLen == 3

NarPieces == {"x", "self", "0"}

\* HashSink(htSHA256) over the NAR
HashSink(nar) == [sha256 |-> nar, matches |-> {}]

\* HashModuloSink(htSHA256, hashPart): the occurrences of the hash-part are
\* zeroed before hashing and their positions are hashed after the data
HashModuloSink(nar) ==
    [sha256 |-> [i \in 1..Len(nar) |-> IF nar[i] = "self" THEN "0" ELSE nar[i]],
     matches |-> {i \in 1..Len(nar) : nar[i] = "self"}]

NoHash == [sha256 |-> <<>>, matches |-> {-1}]

copyStorePathAnySelfRef(info, nar) ==
    IF info.narHash = NoHash
    THEN [info EXCEPT !.narHash = IF ~info.hasSelfReference
                                  THEN HashSink(nar) ELSE HashModuloSink(nar),
                      !.ultimate = FALSE]
    ELSE [info EXCEPT !.ultimate = FALSE]

\* copyStorePath: the info handed to dstStore->addToStore
copyStorePath(info, nar) ==
    IF info.narHash = NoHash
    THEN [info EXCEPT !.narHash = IF ~info.ca \/ ~info.hasSelfReference
                                  THEN HashSink(nar) ELSE HashModuloSink(nar),
                      !.ultimate = FALSE]
    ELSE [info EXCEPT !.ultimate = FALSE]

InitNarHash == IdleStores /\ ev = NoEval /\ AuxIdle

CallCopyStorePath ==
    /\ ev = NoEval
    /\ \E ca \in BOOLEAN, self \in BOOLEAN, known \in BOOLEAN, ultimate \in BOOLEAN,
          nar \in SeqsUpTo(NarPieces, MaxNarLen) :
          LET info == [ca |-> ca, hasSelfReference |-> self, ultimate |-> ultimate,
                       narHash |-> IF known THEN HashSink(nar) ELSE NoHash]
          IN  ev' = [op |-> "copyStorePath", info |-> info, nar |-> nar,
                     added |-> copyStorePath(info, nar)]
    /\ UNCHANGED storeVars

NextNarHash == CallCopyStorePath

SpecNarHash == InitNarHash /\ [][NextNarHash]_vars

\* C12 as stated: when the source info carries no narHash, the narHash handed
\* to dst.addToStore is the hash modulo self-reference whenever the path has a
\* self-reference, and the plain SHA-256 of the NAR otherwise.
C12_Original ==
    (ev.op = "copyStorePath" /\ ev.info.narHash = NoHash) =>
        ev.added.narHash = IF ev.info.hasSelfReference
                           THEN HashModuloSink(ev.nar) ELSE HashSink(ev.nar)

\* C12 amended: the hash modulo self-reference is used when the info is
\* content-addressed (ca set) and has a self-reference; the plain SHA-256 of
\* the NAR in every other case.
C12_NarHash ==
    (ev.op = "copyStorePath" /\ ev.info.narHash = NoHash) =>
        ev.added.narHash = IF ev.info.ca /\ ev.info.hasSelfReference
                           THEN HashModuloSink(ev.nar) ELSE HashSink(ev.nar)

\* both kinds of hash were handed over for a NAR that holds the hash-part
C12_Witness ==
    /\ ev.op = "copyStorePath"
    /\ ev.info.narHash = NoHash
    /\ ev.info.hasSelfReference
    /\ ev.info.ca
    /\ \E i \in 1..Len(ev.nar) : ev.nar[i] = "self"
    /\ ev.added.narHash = HashModuloSink(ev.nar)
    /\ ev.added.narHash # HashSink(ev.nar)

(***************************************************************************)
(* Path infos: PathReferences, content addresses, the store path computed  *)
(* from a content address, and signatures.  A hash is a record of its type *)
(* and its value; the store path made of a type string, a hash, the store  *)
(* directory and a name is the record of the four (compressHash/SHA-256    *)
(* without collisions).                                                    *)
(***************************************************************************)
RefPaths == {"p", "q"}

\* PathReferences::referencesPossiblyToSelf
referencesPossiblyToSelf(x, self) ==
    IF x.hasSelfReference THEN x.references \cup {self} ELSE x.references

setReferencesPossiblyToSelfNoErase(x, self, refs) ==
    [references |-> refs,
     hasSelfReference |-> IF self \in refs THEN TRUE ELSE x.hasSelfReference]

\* PathReferences::setReferencesPossiblyToSelf on the object x
setReferencesPossiblyToSelf(x, self, refs) ==
    [references |-> refs \ {self},
     hasSelfReference |-> IF self \in refs THEN TRUE ELSE x.hasSelfReference]

HashTypes == {"sha256", "sha1"}
Hash(t) == [type |-> t, h |-> "h1"]
Methods == {"Flat", "Recursive", "Git"}

NoCa == [kind |-> "none"]
TextHash(hash) == [kind |-> "text", hash |-> hash]
FixedOutputHash(m, hash) == [kind |-> "fixed", method |-> m, hash |-> hash]
IPFSHash(hash) == [kind |-> "ipfs", hash |-> hash]

Cas ==
    {NoCa} \cup {TextHash(Hash(t)) : t \in HashTypes}
           \cup {FixedOutputHash(m, Hash(t)) : m \in Methods, t \in HashTypes}
           \cup {IPFSHash(Hash(t)) : t \in HashTypes}

\* results of a computation that may throw or fail an assert
Ret(v) == [kind |-> "value", value |-> v]
Throw == [kind |-> "Error"]
Abort == [kind |-> "abort"]

\* hashString(htSHA256, str): the hash is the record of what was hashed
hashString(str) == [sha256 |-> str]

Digests == {"h1", "h2", "h3"}
Hashes == {[type |-> t, h |-> d] : t \in HashTypes, d \in Digests}

\* Hash::to_string(): "<type>:<digest>", a string being the sequence of its
\* pieces (the words between the colons and the colons themselves)
HashToString(hash) == <<hash.type, ":", hash.h>>

makeFileIngestionPrefixNoGit(m) ==
    IF m = "Recursive" THEN <<"r", ":">> ELSE <<>>

\* makeFileIngestionPrefix
makeFileIngestionPrefix(m) ==
    IF m = "Flat" THEN <<>>
    ELSE IF m = "Recursive" THEN <<"r", ":">>
    ELSE <<"git", ":">>

\* Store::makeStorePath
makeStorePath(dir, type, hash, name) ==
    [type |-> type, hash |-> hash, dir |-> dir, name |-> name]

\* makeType: the references and the self-reference become part of the type
makeType(type, refs) ==
    [base |-> type, references |-> refs.references, self |-> refs.hasSelfReference]

NoRefs == [references |-> {}, hasSelfReference |-> FALSE]

\* Store::makeFixedOutputPath
makeFixedOutputPath(dir, name, info) ==
    IF info.method = "Git" /\ info.hash.type # "sha1" THEN Throw
    ELSE IF info.hash.type = "sha256" /\ info.method = "Recursive"
    THEN Ret(makeStorePath(dir, makeType("source", info.references), info.hash, name))
    ELSE IF info.references.references # {} \/ info.references.hasSelfReference
    THEN Abort
    ELSE Ret(makeStorePath(dir, makeType("output:out", NoRefs),
                           hashString(<<"fixed", ":", "out", ":">>
                                      \o makeFileIngestionPrefix(info.method)
                                      \o HashToString(info.hash) \o <<":">>),
                           name))

\* Store::makeTextPath
makeTextPath(dir, name, info) ==
    IF info.hash.type # "sha256" THEN Abort
    ELSE Ret(makeStorePath(dir,
                 makeType("text", [references |-> info.references,
                                   hasSelfReference |-> FALSE]),
                 info.hash, name))

\* Store::makeIPFSPath
makeIPFSPath(dir, name, hash) ==
    IF hash.type # "sha256" THEN Abort
    ELSE Ret(makeStorePath(dir, makeType("ipfs", NoRefs), hash, name))

\* Store::makeFixedOutputPathFromCA over a full content address
StoreMakeFixedOutputPathFromCA(dir, ca) ==
    IF ca.info.kind = "text" THEN makeTextPath(dir, ca.name, ca.info)
    ELSE IF ca.info.kind = "fixed" THEN makeFixedOutputPath(dir, ca.name, ca.info)
    ELSE makeIPFSPath(dir, ca.name, ca.info.hash)

ValidPathInfoFullContentAddressOptNoRefs(info) ==
    IF info.ca = NoCa THEN Ret(NoCa)
    ELSE IF info.ca.kind = "text"
    THEN IF info.hasSelfReference THEN Abort
         ELSE Ret([name |-> info.name,
                   info |-> [kind |-> "text", hash |-> info.ca.hash,
                             references |-> {}]])
    ELSE IF info.ca.kind = "fixed"
    THEN Ret([name |-> info.name,
              info |-> [kind |-> "fixed", method |-> info.ca.method,
                        hash |-> info.ca.hash, references |-> NoRefs]])
    ELSE Ret([name |-> info.name, info |-> info.ca])

\* ValidPathInfo::fullContentAddressOpt (nullopt is Ret(NoCa))
ValidPathInfoFullContentAddressOpt(info) ==
    IF info.ca = NoCa THEN Ret(NoCa)
    ELSE IF info.ca.kind = "text"
    THEN IF info.hasSelfReference THEN Abort
         ELSE Ret([name |-> info.name,
                   info |-> [kind |-> "text", hash |-> info.ca.hash,
                             references |-> info.references]])
    ELSE IF info.ca.kind = "fixed"
    THEN Ret([name |-> info.name,
              info |-> [kind |-> "fixed", method |-> info.ca.method,
                        hash |-> info.ca.hash,
                        references |-> [references |-> info.references,
                                        hasSelfReference |-> info.hasSelfReference]]])
    ELSE Ret([name |-> info.name, info |-> info.ca])

\* ValidPathInfo::isContentAddressed(store)
isContentAddressed(dir, info) ==
    LET fullCaOpt == ValidPathInfoFullContentAddressOpt(info)
    IN  IF fullCaOpt.kind # "value" THEN fullCaOpt
        ELSE IF fullCaOpt.value = NoCa THEN Ret(FALSE)
        ELSE LET caPath == StoreMakeFixedOutputPathFromCA(dir, fullCaOpt.value)
             IN  IF caPath.kind # "value" THEN caPath
                 ELSE Ret(caPath.value = info.path)

\* the value of ValidPathInfo::maxSigs, the largest size_t; here the largest
\* integer of the model
maxSigs == 2147483647

\* ValidPathInfo::fingerprint
fingerprint(info) ==
    IF ~info.narKnown THEN Throw
    ELSE Ret([v |-> "1", path |-> info.path, narHash |-> "n", narSize |-> 1,
              references |-> [references |-> info.references,
                              self |-> info.hasSelfReference]])

\* verifyDetached: the signature is by one of the keys, over this data
verifyDetached(data, sig, publicKeys) ==
    sig.key \in publicKeys /\ sig.msg = data

\* ValidPathInfo::checkSignature
checkSignature(info, publicKeys, sig) ==
    LET f == fingerprint(info)
    IN  IF f.kind # "value" THEN f
        ELSE Ret(verifyDetached(f.value, sig, publicKeys))

checkSignaturesAny(dir, info, publicKeys) ==
    LET ica == isContentAddressed(dir, info)
    IN  IF ica.kind # "value" THEN ica
        ELSE IF ica.value THEN Ret(maxSigs)
        ELSE IF info.sigs # {} /\ fingerprint(info).kind # "value"
        THEN fingerprint(info)
        ELSE Ret(IF \E sig \in info.sigs :
                       checkSignature(info, publicKeys, sig).value
                 THEN 1 ELSE 0)

\* ValidPathInfo::checkSignatures
checkSignatures(dir, info, publicKeys) ==
    LET ica == isContentAddressed(dir, info)
    IN  IF ica.kind # "value" THEN ica
        ELSE IF ica.value THEN Ret(maxSigs)
        ELSE IF info.sigs # {} /\ fingerprint(info).kind # "value"
        THEN fingerprint(info)
        ELSE Ret(Cardinality({sig \in info.sigs :
                                 checkSignature(info, publicKeys, sig).value}))

(***************************************************************************)
(* SpecInfo: one evaluation of an operation on a path info.                *)
(***************************************************************************)
StoreDir == "s"
Keys == {"k1", "k2"}

\* a ContentAddress: name, content address, references
ContentAddressOf(name, ca, refs, self) ==
    [name |-> name,
     info |-> IF ca.kind = "text"
              THEN [kind |-> "text", hash |-> ca.hash, references |-> refs]
              ELSE IF ca.kind = "fixed"
              THEN [kind |-> "fixed", method |-> ca.method, hash |-> ca.hash,
                    references |-> [references |-> refs, hasSelfReference |-> self]]
              ELSE ca]

\* a path that is not computed from a content address
InputAddressedPath(name) ==
    makeStorePath(StoreDir, makeType("output:out", NoRefs), [drv |-> "d1"], name)

\* the paths an info of this shape is registered under: the one made from
\* its content address and references, the one made from its content address
\* alone, or an input-addressed one
PathsFor(name, ca, refs, self) ==
    LET made == IF ca = NoCa \/ (ca.kind = "text" /\ self) THEN {}
                ELSE {StoreMakeFixedOutputPathFromCA(StoreDir,
                          ContentAddressOf(name, ca, refs, self)),
                      StoreMakeFixedOutputPathFromCA(StoreDir,
                          ContentAddressOf(name, ca, {}, FALSE))}
    IN  {m.value : m \in {x \in made : x.kind = "value"}} \cup {InputAddressedPath(name)}

InitInfo == IdleStores /\ ev = NoEval /\ AuxIdle

CallRoundTrip ==
    /\ ev = NoEval
    /\ \E refs \in SUBSET RefPaths, flag \in BOOLEAN, self \in RefPaths :
          LET x == [references |-> refs, hasSelfReference |-> flag]
          IN  ev' = [op |-> "roundTrip", x |-> x, self |-> self,
                     flat |-> referencesPossiblyToSelf(x, self),
                     after |-> setReferencesPossiblyToSelf(x, self,
                                   referencesPossiblyToSelf(x, self))]
    /\ UNCHANGED storeVars

CallIsContentAddressed ==
    /\ ev = NoEval
    /\ \E ca \in Cas, refs \in SUBSET RefPaths, self \in BOOLEAN :
       \E path \in PathsFor("foo", ca, refs, self) :
          LET info == [name |-> "foo", ca |-> ca, references |-> refs,
                       hasSelfReference |-> self, path |-> path]
          IN  ev' = [op |-> "isContentAddressed", info |-> info,
                     res |-> isContentAddressed(StoreDir, info)]
    /\ UNCHANGED storeVars

CallCheckSignatures ==
    /\ ev = NoEval
    /\ \E ca \in Cas, refs \in SUBSET {"p"}, self \in BOOLEAN, narKnown \in BOOLEAN,
          publicKeys \in SUBSET Keys :
       \E path \in PathsFor("foo", ca, refs, self) :
          LET info0 == [name |-> "foo", ca |-> ca, references |-> refs,
                        hasSelfReference |-> self, path |-> path,
                        narKnown |-> TRUE]
              msgs == {fingerprint(info0).value, [v |-> "other"]}
          IN  \E sigs \in SUBSET {[key |-> k, msg |-> m] : k \in Keys, m \in msgs} :
                 LET info == [info0 EXCEPT !.narKnown = narKnown] @@ [sigs |-> sigs]
                 IN  ev' = [op |-> "checkSignatures", info |-> info,
                            publicKeys |-> publicKeys,
                            res |-> checkSignatures(StoreDir, info, publicKeys)]
    /\ UNCHANGED storeVars

NextInfo == CallRoundTrip \/ CallIsContentAddressed \/ CallCheckSignatures

SpecInfo == InitInfo /\ [][NextInfo]_vars

\* the signatures of the info made with one of the keys over its fingerprint
VerifyingSigs(info, publicKeys) ==
    {sig \in info.sigs : sig.key \in publicKeys /\ sig.msg # [v |-> "other"]}

\* the info has a content address and the path made from its name, content
\* address, references and self-reference flag is its path
RecomputesToPath(info) ==
    /\ info.ca # NoCa
    /\ StoreMakeFixedOutputPathFromCA(StoreDir,
           ContentAddressOf(info.name, info.ca, info.references,
                            info.hasSelfReference)) = Ret(info.path)

C14_IsContentAddressed ==
    ev.op = "isContentAddressed" =>
        LET info == ev.info
            alone == StoreMakeFixedOutputPathFromCA(StoreDir,
                         ContentAddressOf(info.name, info.ca, {}, FALSE))
        IN  /\ (ev.res = Ret(TRUE)) <=> RecomputesToPath(info)
            /\ (ev.res = Ret(TRUE) /\ info.ca.kind \in {"text", "fixed"}) =>
                  IF info.references = {} /\ ~info.hasSelfReference
                  THEN alone = Ret(info.path)
                  ELSE alone # Ret(info.path)

\* a content-addressed path with references, which its ca and name alone do
\* not reproduce
C14_Witness ==
    /\ ev.op = "isContentAddressed"
    /\ ev.res = Ret(TRUE)
    /\ ev.info.ca.kind = "fixed"
    /\ ev.info.references # {}
    /\ StoreMakeFixedOutputPathFromCA(StoreDir,
           ContentAddressOf(ev.info.name, ev.info.ca, {}, FALSE)) # Ret(ev.info.path)

\* C15 as stated: for every PathReferences value x and every self path,
\* x.setReferencesPossiblyToSelf(self, x.referencesPossiblyToSelf(self))
\* leaves x as it was.
C15_Original == ev.op = "roundTrip" => ev.after = ev.x

\* C15 amended: the same for every x whose references set does not hold self.
C15_RoundTrip ==
    (ev.op = "roundTrip" /\ ev.self \notin ev.x.references) => ev.after = ev.x

C15_Witness ==
    /\ ev.op = "roundTrip"
    /\ ev.x.hasSelfReference
    /\ ev.x.references # {}
    /\ ev.self \notin ev.x.references
    /\ ev.self \in ev.flat
    /\ ev.after = ev.x

(***************************************************************************)
(* Derivations.  A DerivationOutput is (path, hashAlgo, hash) with the     *)
(* path optional; outputs is a map ordered by output name.  An operation   *)
(* whose code has undefined behaviour on some input has several possible   *)
(* outcomes there, so every operation yields the set of its outcomes.      *)
(***************************************************************************)
OutputOrder == <<"dev", "out">>
OutputNames == {OutputOrder[i] : i \in 1..Len(OutputOrder)}

NoOutPath == "none"                     \* DerivationOutput::path is empty
OutPaths == {"/o1", "/o2"}

DerivationOutputs ==
    [path : OutPaths \cup {NoOutPath}, hashAlgo : {"", "sha256"}, hash : {"", "abc"}]

\* the maps from output names to outputs (the empty one included)
OutputMaps == UNION {[names -> DerivationOutputs] : names \in SUBSET OutputNames}

\* outputs.begin()->first of a non-empty map
FirstOutput(outputs) ==
    OutputOrder[CHOOSE i \in 1..Len(OutputOrder) :
                   /\ OutputOrder[i] \in DOMAIN outputs
                   /\ \A j \in 1..(i - 1) : OutputOrder[j] \notin DOMAIN outputs]

\* BasicDerivation::type().  With no outputs, outputs.begin() is the end of
\* the map and reading through it is undefined: the call may crash or go on
\* with any hashAlgo.
BasicDerivationType(drv) ==
    LET names == DOMAIN drv.outputs
    IN  IF names = {} THEN {Abort, Ret("Regular"), Ret("CAFloating")}
        ELSE LET first == drv.outputs[FirstOutput(drv.outputs)]
                 algo == first.hashAlgo
             IN  IF /\ Cardinality(names) = 1
                    /\ FirstOutput(drv.outputs) = "out"
                    /\ first.hash # ""
                    /\ first.path = NoOutPath
                 THEN {Ret("CAFixed")}
                 ELSE IF \E i \in names :
                            \/ drv.outputs[i].hash # ""
                            \/ drv.outputs[i].hashAlgo # algo
                            \/ (algo = "") = (drv.outputs[i].path # NoOutPath)
                 THEN {Throw}
                 ELSE {Ret(IF algo = "" THEN "Regular" ELSE "CAFloating")}

\* the output list of a derivation file: the path is a string
OutputTexts ==
    UNION {[names -> [path : {"", "/o1"}, hashAlgo : {"", "sha256"},
                      hash : {"", "abc"}]] : names \in SUBSET OutputNames}

\* parseDerivation, the outputs: parsePath throws on a string that does not
\* start with '/', and the output always gets a path
parseDerivation(text) ==
    IF \E i \in DOMAIN text : text[i].path = ""
    THEN Throw
    ELSE Ret([outputs |-> [i \in DOMAIN text |->
                             [path |-> text[i].path, hashAlgo |-> text[i].hashAlgo,
                              hash |-> text[i].hash]]])

DerivationTypes == {"Regular", "CAFixed", "CAFloating"}

\* derivationIsCA, derivationIsFixed, derivationIsImpure: the same switch
derivationIsCA(dt) ==
    IF dt = "Regular" THEN Ret(FALSE)
    ELSE IF dt = "CAFixed" THEN Ret(TRUE)
    ELSE Abort

\* derivationIsFixed
derivationIsFixed(dt) ==
    IF dt = "Regular" THEN Ret(FALSE)
    ELSE IF dt = "CAFixed" THEN Ret(TRUE)
    ELSE Abort

\* derivationIsImpure
derivationIsImpure(dt) ==
    IF dt = "Regular" THEN Ret(FALSE)
    ELSE IF dt = "CAFixed" THEN Ret(TRUE)
    ELSE Abort

(***************************************************************************)
(* hashDerivationModulo.  A derivation here is its outputs, its inputDrvs  *)
(* (derivation path -> wanted outputs) and its env; the other fields do    *)
(* not vary.  A DrvHashModulo is one hash or a map from output names to    *)
(* hashes.  st is the store: the valid derivation paths and the            *)
(* derivations their files hold; memo is the table drvHashes.  An outcome  *)
(* is the result (or the failure) and the table afterwards.                *)
(***************************************************************************)
DrvPathOrder == <<"d1", "d2">>
DrvPaths == {DrvPathOrder[i] : i \in 1..Len(DrvPathOrder)}

OneHash(h) == [kind |-> "hash", h |-> h]
HashMap(m) == [kind |-> "map", m |-> m]
NoValue == [kind |-> "none"]

Outcome(kind, value, memo) == [kind |-> kind, value |-> value, memo |-> memo]

\* what a read through an empty optional or a past-the-end iterator may give
Garbage == {"", "junk"}

\* Derivation::unparse(store, maskOutputs, actualInputs): the text, as the
\* record of its parts.  The path printed is "" when the output has a path or
\* maskOutputs is set; otherwise the empty optional is dereferenced.
unparse(drv, maskOutputs, actualInputs) ==
    LET text(g) ==
            [outputs |-> [i \in DOMAIN drv.outputs |->
                            [path |-> IF drv.outputs[i].path # NoOutPath \/ maskOutputs
                                      THEN "" ELSE g,
                             hashAlgo |-> drv.outputs[i].hashAlgo,
                             hash |-> drv.outputs[i].hash]],
             inputs |-> actualInputs,
             env |-> [k \in DOMAIN drv.env |->
                        IF maskOutputs /\ k \in DOMAIN drv.outputs
                        THEN "" ELSE drv.env[k]]]
    IN  IF \E i \in DOMAIN drv.outputs :
               drv.outputs[i].path = NoOutPath /\ ~maskOutputs
        THEN {Abort} \cup {Ret(text(g)) : g \in Garbage}
        ELSE {Ret(text(""))}

\* inputs2.insert_or_assign(key, outputs)
InsertOrAssign(inputs2, key, outputs) ==
    {e \in inputs2 : e.key # key} \cup {[key |-> key, outputs |-> outputs]}

RECURSIVE InsertOutputs(_, _, _)
\* the loop over the wanted outputs of an input whose hash-modulo is a map
InsertOutputs(inputs2, m, wanted) ==
    IF wanted = {} THEN inputs2
    ELSE LET o == CHOOSE x \in wanted : TRUE
         IN  InsertOutputs(InsertOrAssign(inputs2, m[o], {"out"}), m, wanted \ {o})

RECURSIVE hashDerivationModulo(_, _, _, _)
RECURSIVE pathDerivationModulo(_, _, _)
RECURSIVE FoldInputs(_, _, _, _, _)

\* pathDerivationModulo(store, drvPath)
pathDerivationModulo(st, memo, drvPath) ==
    IF drvPath \in DOMAIN memo
    THEN {Outcome("value", memo[drvPath], memo)}
    ELSE IF drvPath \notin st.valid
    THEN {Outcome("abort", NoValue, memo)}
    ELSE LET read == parseDerivation(st.files[drvPath].outputs)
         IN  IF read.kind # "value"
             THEN {Outcome("Error", NoValue, memo)}
             ELSE LET drv == [outputs |-> read.value.outputs,
                              inputDrvs |-> st.files[drvPath].inputDrvs,
                              env |-> st.files[drvPath].env]
                  IN  {IF r.kind = "value"
                       THEN Outcome("value", r.value,
                                [d \in DOMAIN r.memo \cup {drvPath} |->
                                    IF d = drvPath THEN r.value ELSE r.memo[d]])
                       ELSE r
                          : r \in hashDerivationModulo(st, memo, drv, FALSE)}

\* the loop of hashDerivationModulo over inputDrvs, in the order of the map
FoldInputs(st, memo, drv, k, inputs2) ==
    IF k > Len(DrvPathOrder)
    THEN {[kind |-> "value", inputs2 |-> inputs2, memo |-> memo]}
    ELSE IF DrvPathOrder[k] \notin DOMAIN drv.inputDrvs
    THEN FoldInputs(st, memo, drv, k + 1, inputs2)
    ELSE LET d == DrvPathOrder[k]
             wanted == drv.inputDrvs[d]
         IN  UNION {
               IF r.kind # "value"
               THEN {[kind |-> r.kind, inputs2 |-> {}, memo |-> r.memo]}
               ELSE IF r.value.kind = "hash"
               THEN FoldInputs(st, r.memo, drv, k + 1,
                               InsertOrAssign(inputs2, r.value.h, wanted))
               ELSE IF ~(wanted \subseteq DOMAIN r.value.m)
               THEN {[kind |-> "out_of_range", inputs2 |-> {}, memo |-> r.memo]}
               ELSE FoldInputs(st, r.memo, drv, k + 1,
                               InsertOutputs(inputs2, r.value.m, wanted))
                   : r \in pathDerivationModulo(st, memo, d)}

\* hashDerivationModulo(store, drv, maskOutputs).  In the CAFixed case the
\* output has no path and the path printed into the hash is read through the
\* empty optional.
hashDerivationModulo(st, memo, drv, maskOutputs) ==
    UNION {
      IF t.kind # "value" THEN {Outcome(t.kind, NoValue, memo)}
      ELSE IF t.value = "CAFixed"
      THEN {Outcome("abort", NoValue, memo)} \cup
           {Outcome("value",
                HashMap([i \in DOMAIN drv.outputs |->
                    hashString([fixed |-> "out",
                                hashAlgo |-> drv.outputs[i].hashAlgo,
                                hash |-> drv.outputs[i].hash,
                                path |-> g])]),
                memo) : g \in Garbage}
      ELSE IF t.value = "CAFloating"
      THEN {Outcome("Error", NoValue, memo)}
      ELSE UNION {
             IF f.kind # "value" THEN {Outcome(f.kind, NoValue, f.memo)}
             ELSE {IF u.kind = "value"
                   THEN Outcome("value", OneHash(hashString(u.value)), f.memo)
                   ELSE Outcome(u.kind, NoValue, f.memo)
                      : u \in unparse(drv, maskOutputs, f.inputs2)}
                 : f \in FoldInputs(st, memo, drv, 1, {})}
          : t \in BasicDerivationType(drv)}

(***************************************************************************)
(* SpecDrv: one evaluation of an operation on a derivation.                *)
(***************************************************************************)
EmptyMap == [x \in {} |-> ""]

EnvMaps == {EmptyMap, [k \in {"out"} |-> "/o1"], [k \in {"x"} |-> "v"]}

InputDrvMaps ==
    {EmptyMap,
     [d \in {"d1"} |-> {"out"}],
     [d \in {"d2"} |-> {"out"}],
     [d \in {"d1", "d2"} |-> IF d = "d1" THEN {"out"} ELSE {"dev", "out"}]}

\* the derivation files of the store: d1 is a derivation with one output and
\* no inputs, d2 a fixed-output derivation that depends on d1
DrvFiles ==
    [d \in DrvPaths |->
        IF d = "d1"
        THEN [outputs |-> [i \in {"out"} |-> [path |-> "/o1", hashAlgo |-> "", hash |-> ""]],
              inputDrvs |-> EmptyMap, env |-> EmptyMap]
        ELSE [outputs |-> [i \in {"out"} |-> [path |-> "/o1", hashAlgo |-> "sha256",
                                              hash |-> "abc"]],
              inputDrvs |-> [x \in {"d1"} |-> {"out"}], env |-> EmptyMap]]

DrvStores == {[valid |-> v, files |-> DrvFiles] : v \in {{}, DrvPaths}}

\* contents of drvHashes left by earlier calls
Memos ==
    {EmptyMap,
     [d \in {"d1"} |-> OneHash(hashString("t1"))],
     [d \in {"d1"} |-> HashMap([o \in {"out"} |-> hashString("t2")])],
     [d \in DrvPaths |-> IF d = "d1" THEN OneHash(hashString("t1"))
                         ELSE HashMap([o \in OutputNames |-> hashString("t1")])]}

InitDrv == IdleStores /\ ev = NoEval /\ AuxIdle

CallType ==
    /\ ev = NoEval
    /\ \E outputs \in OutputMaps :
       \E r \in BasicDerivationType([outputs |-> outputs]) :
          ev' = [op |-> "type", outputs |-> outputs, res |-> r]
    /\ UNCHANGED storeVars

\* readDerivation followed by type()
CallParseType ==
    /\ ev = NoEval
    /\ \E text \in OutputTexts :
          LET read == parseDerivation(text)
          IN  \E r \in (IF read.kind = "value"
                        THEN BasicDerivationType(read.value) ELSE {read}) :
                 ev' = [op |-> "parseType", text |-> text, res |-> r]
    /\ UNCHANGED storeVars

CallDerivationIs ==
    /\ ev = NoEval
    /\ \E dt \in DerivationTypes :
          \/ ev' = [op |-> "derivationIsCA", dt |-> dt, res |-> derivationIsCA(dt)]
          \/ ev' = [op |-> "derivationIsFixed", dt |-> dt, res |-> derivationIsFixed(dt)]
          \/ ev' = [op |-> "derivationIsImpure", dt |-> dt, res |-> derivationIsImpure(dt)]
    /\ UNCHANGED storeVars

CallHashDerivationModulo ==
    /\ ev = NoEval
    /\ \E outputs \in OutputMaps, env \in EnvMaps, inputDrvs \in InputDrvMaps,
          memo \in Memos, st \in DrvStores, maskOutputs \in BOOLEAN :
          LET drv == [outputs |-> outputs, inputDrvs |-> inputDrvs, env |-> env]
          IN  \E r \in hashDerivationModulo(st, memo, drv, maskOutputs) :
                 ev' = [op |-> "hashDerivationModulo", drv |-> drv,
                        maskOutputs |-> maskOutputs, memo |-> memo,
                        types |-> BasicDerivationType(drv), res |-> r]
    /\ UNCHANGED storeVars

\* hashDerivationModulo with maskOutputs = true on two derivations that
\* differ at most in the values of the paths their outputs have
CallHashPair ==
    /\ ev = NoEval
    /\ \E outputs \in OutputMaps, env \in EnvMaps, inputDrvs \in {EmptyMap},
          memo \in {EmptyMap}, st \in DrvStores :
       \E paths \in [DOMAIN outputs -> OutPaths] :
          LET drv == [outputs |-> outputs, inputDrvs |-> inputDrvs, env |-> env]
              drv2 == [drv EXCEPT !.outputs =
                          [i \in DOMAIN outputs |->
                              IF outputs[i].path = NoOutPath THEN outputs[i]
                              ELSE [outputs[i] EXCEPT !.path = paths[i]]]]
          IN  \E r \in hashDerivationModulo(st, memo, drv, TRUE),
                 r2 \in hashDerivationModulo(st, memo, drv2, TRUE) :
                 ev' = [op |-> "hashPair", drv |-> drv, drv2 |-> drv2,
                        res |-> r, res2 |-> r2]
    /\ UNCHANGED storeVars

\* the same store with another recipe for the fixed-output derivation d2:
\* the same output, no inputs and another environment
DrvFilesOtherRecipe ==
    [DrvFiles EXCEPT !["d2"] = [outputs |-> DrvFiles["d2"].outputs,
                                inputDrvs |-> EmptyMap,
                                env |-> [k \in {"x"} |-> "v"]]]

\* hashDerivationModulo of one consumer of the fixed-output derivation d2, in
\* two stores that differ in the recipe of d2 only, drvHashes empty
CallHashConsumer ==
    /\ ev = NoEval
    /\ \E outputs \in OutputMaps, env \in EnvMaps, maskOutputs \in BOOLEAN :
          LET drv == [outputs |-> outputs, inputDrvs |-> [d \in {"d2"} |-> {"out"}],
                      env |-> env]
              st == [valid |-> DrvPaths, files |-> DrvFiles]
              st2 == [valid |-> DrvPaths, files |-> DrvFilesOtherRecipe]
          IN  \E r \in hashDerivationModulo(st, EmptyMap, drv, maskOutputs),
                 r2 \in hashDerivationModulo(st2, EmptyMap, drv, maskOutputs) :
                 ev' = [op |-> "hashConsumer", drv |-> drv,
                        maskOutputs |-> maskOutputs, res |-> r, res2 |-> r2]
    /\ UNCHANGED storeVars

\* hashDerivationModulo of a derivation whose two input derivations have one
\* hash-modulo in drvHashes (they differ in the recipe of a fixed-output
\* input only)
CallHashSameModulo ==
    /\ ev = NoEval
    /\ \E outputs \in OutputMaps, env \in EnvMaps, maskOutputs \in BOOLEAN,
          inputDrvs \in [DrvPaths -> (SUBSET OutputNames) \ {{}}] :
          LET drv == [outputs |-> outputs, inputDrvs |-> inputDrvs, env |-> env]
              memo == [d \in DrvPaths |-> OneHash(hashString("t1"))]
              st == [valid |-> DrvPaths, files |-> DrvFiles]
          IN  \E r \in hashDerivationModulo(st, memo, drv, maskOutputs) :
                 ev' = [op |-> "hashSameModulo", drv |-> drv,
                        maskOutputs |-> maskOutputs, memo |-> memo, res |-> r]
    /\ UNCHANGED storeVars

NextDrv ==
    \/ CallType
    \/ CallParseType
    \/ CallDerivationIs
    \/ CallHashDerivationModulo
    \/ CallHashPair
    \/ CallHashConsumer
    \/ CallHashSameModulo

SpecDrv == InitDrv /\ [][NextDrv]_vars

\* C16: type() returns Regular if and only if every output of the derivation
\* has an empty hash and a present path; in particular it returns Regular,
\* without raising, when all outputs have empty hashAlgo, empty hash and a
\* present path.
C16_Regular ==
    ev.op = "type" =>
        ((ev.res = Ret("Regular")) <=>
            \A i \in DOMAIN ev.outputs :
                ev.outputs[i].hash = "" /\ ev.outputs[i].path # NoOutPath)

\* C17: type() returns CAFixed if and only if the derivation has exactly one
\* output, named "out", with a non-empty hash and no path; and a derivation
\* read by parseDerivation that declares a fixed output is classified CAFixed.
C17_CAFixed ==
    /\ ev.op = "type" =>
          ((ev.res = Ret("CAFixed")) <=>
              /\ DOMAIN ev.outputs = {"out"}
              /\ ev.outputs["out"].hash # ""
              /\ ev.outputs["out"].path = NoOutPath)
    /\ (/\ ev.op = "parseType"
        /\ DOMAIN ev.text = {"out"}
        /\ ev.text["out"].hashAlgo # ""
        /\ ev.text["out"].hash # ""
        /\ ev.text["out"].path # "")
          => ev.res = Ret("CAFixed")

\* C18: type() raises an error, and returns no kind, whenever the outputs mix
\* hashAlgo = "" with hashAlgo # "", whenever some output has hashAlgo = ""
\* and no path, and whenever some output has hashAlgo # "" and a path.
C18_Raises ==
    (/\ ev.op = "type"
     /\ \/ \E i, j \in DOMAIN ev.outputs :
              ev.outputs[i].hashAlgo = "" /\ ev.outputs[j].hashAlgo # ""
        \/ \E i \in DOMAIN ev.outputs :
              ev.outputs[i].hashAlgo = "" /\ ev.outputs[i].path = NoOutPath
        \/ \E i \in DOMAIN ev.outputs :
              ev.outputs[i].hashAlgo # "" /\ ev.outputs[i].path # NoOutPath)
        => ev.res = Throw

\* C19: on the kind CAFloating every operation that dispatches on the kind
\* ends in a raised error: hashDerivationModulo raises and yields no hash, and
\* so do derivationIsCA, derivationIsFixed and derivationIsImpure.
C19_FloatingRaises ==
    /\ (ev.op = "hashDerivationModulo" /\ ev.types = {Ret("CAFloating")})
          => ev.res.kind = "Error"
    /\ (ev.op \in {"derivationIsCA", "derivationIsFixed", "derivationIsImpure"}
           /\ ev.dt = "CAFloating")
          => ev.res = Throw

\* C20: for a Regular derivation (every output with an empty hashAlgo, an
\* empty hash and a path), hashDerivationModulo with maskOutputs = true gives
\* a hash, and the same one for a derivation that differs only in the values
\* of the paths.
C20_MaskedOutputs ==
    (/\ ev.op = "hashPair"
     /\ DOMAIN ev.drv.outputs # {}
     /\ \A i \in DOMAIN ev.drv.outputs :
           /\ ev.drv.outputs[i].hashAlgo = ""
           /\ ev.drv.outputs[i].hash = ""
           /\ ev.drv.outputs[i].path # NoOutPath)
        => /\ ev.res.kind = "value"
           /\ ev.res2.kind = "value"
           /\ ev.res.value = ev.res2.value

\* C21: for a Regular derivation (every output with an empty hashAlgo, an
\* empty hash and a path) whose inputs have their hash-modulo in drvHashes,
\* hashDerivationModulo is the hash of the unparse in which every inputDrvs
\* entry is replaced by (h -> outputs) when the input's hash-modulo is one
\* hash h, and by (m[oid] -> {"out"}) for each wanted output oid when it is
\* a map m; and a consumer of a fixed-output input gets a hash that does not
\* change with the recipe of the input.
C21_InputsReplaced ==
    /\ (/\ ev.op = "hashDerivationModulo"
        /\ DOMAIN ev.drv.outputs # {}
        /\ \A i \in DOMAIN ev.drv.outputs :
              /\ ev.drv.outputs[i].hashAlgo = ""
              /\ ev.drv.outputs[i].hash = ""
              /\ ev.drv.outputs[i].path # NoOutPath
        /\ \A d \in DOMAIN ev.drv.inputDrvs :
              /\ d \in DOMAIN ev.memo
              /\ ev.memo[d].kind = "map" => ev.drv.inputDrvs[d] \subseteq DOMAIN ev.memo[d].m)
          => /\ ev.res.kind = "value"
             /\ ev.res.value = OneHash(hashString(
                  [outputs |-> [i \in DOMAIN ev.drv.outputs |->
                                  [path |-> IF ev.maskOutputs THEN ""
                                            ELSE ev.drv.outputs[i].path,
                                   hashAlgo |-> "", hash |-> ""]],
                   inputs |->
                       {[key |-> ev.memo[d].h, outputs |-> ev.drv.inputDrvs[d]] :
                           d \in {x \in DOMAIN ev.drv.inputDrvs : ev.memo[x].kind = "hash"}}
                       \cup UNION {{[key |-> ev.memo[d].m[o], outputs |-> {"out"}] :
                                       o \in ev.drv.inputDrvs[d]} :
                           d \in {x \in DOMAIN ev.drv.inputDrvs : ev.memo[x].kind = "map"}},
                   env |-> [k \in DOMAIN ev.drv.env |->
                              IF ev.maskOutputs /\ k \in DOMAIN ev.drv.outputs
                              THEN "" ELSE ev.drv.env[k]]]))
    /\ (/\ ev.op = "hashConsumer"
        /\ DOMAIN ev.drv.outputs # {}
        /\ \A i \in DOMAIN ev.drv.outputs :
              /\ ev.drv.outputs[i].hashAlgo = ""
              /\ ev.drv.outputs[i].hash = ""
              /\ ev.drv.outputs[i].path # NoOutPath)
          => /\ ev.res.kind = "value"
             /\ ev.res2.kind = "value"
             /\ ev.res.value = ev.res2.value

\* C38: in hashDerivationModulo of a Regular derivation every output
\* requested from an input derivation is in the substituted input map: when
\* two input derivations have the same hash-modulo, the entry under that
\* hash holds the union of their requested outputs.
C38_InputsUnion ==
    (/\ ev.op = "hashSameModulo"
     /\ ev.res.kind = "value"
     /\ ev.res.value.kind = "hash")
      => \A d \in DOMAIN ev.drv.inputDrvs :
            \E e \in ev.res.value.h.sha256.inputs :
                /\ e.key = ev.memo[d].h
                /\ ev.drv.inputDrvs[d] \subseteq e.outputs

(***************************************************************************)
(* SpecDh: threads calling pathDerivationModulo on the table drvHashes.    *)
(* drvHashes is a plain std::map; find and insert_or_assign are calls on   *)
(* it that take time, so each is a step that begins and a step that ends.  *)
(* Two accesses that overlap, one of them an insert, are a data race: the  *)
(* lookup may then answer anything and the table may be left corrupt.      *)
(***************************************************************************)
DhThreads == {"t1", "t2"}

\* the threads inside a call on the table
Accessing(d) == {t \in DhThreads : d.pc[t] \in {"find", "insert"}}

\* the accesses of the other threads that race with an access of t
Racing(d, t, write) ==
    {u \in DhThreads \ {t} :
        d.pc[u] = "insert" \/ (write /\ d.pc[u] = "find")}

InitDh ==
    /\ IdleStores /\ ev = NoEval
    /\ ssh = SshIdle /\ db = DbIdle /\ pr = PrIdle
    /\ \E valid \in {DrvPaths, {"d1"}} :
          dh = [pc |-> [t \in DhThreads |-> "idle"],
                path |-> [t \in DhThreads |-> "d1"],
                raced |-> [t \in DhThreads |-> FALSE],
                known |-> [t \in DhThreads |-> FALSE],
                valid |-> valid,
                table |-> {},
                overlap |-> FALSE,
                corrupt |-> FALSE,
                aborted |-> FALSE]

\* pathDerivationModulo(store, drvPath) is called: drvHashes.find begins
DhCall(t) ==
    /\ ~dh.aborted
    /\ dh.pc[t] = "idle"
    /\ \E d \in DrvPaths :
          dh' = [dh EXCEPT !.pc[t] = "find", !.path[t] = d,
                           !.known[t] = d \in dh.table,
                           !.raced = [u \in DhThreads |->
                                        IF u = t THEN Racing(dh, t, FALSE) # {}
                                        ELSE dh.raced[u] \/ dh.pc[u] = "insert"],
                           !.overlap = @ \/ Accessing(dh) # {}]
    /\ UNCHANGED <<cacheVars, qv, cp, ev, ssh, db, pr>>

\* drvHashes.find ends; on a miss assert(store.isValidPath(drvPath))
DhFound(t) ==
    /\ ~dh.aborted
    /\ dh.pc[t] = "find"
    /\ \E hit \in (IF dh.raced[t] \/ dh.corrupt THEN BOOLEAN
                   ELSE {dh.path[t] \in dh.table}) :
          dh' = IF hit THEN [dh EXCEPT !.pc[t] = "idle", !.raced[t] = FALSE]
                ELSE IF dh.path[t] \notin dh.valid
                THEN [dh EXCEPT !.aborted = TRUE]
                ELSE [dh EXCEPT !.pc[t] = "hash", !.raced[t] = FALSE]
    /\ UNCHANGED <<cacheVars, qv, cp, ev, ssh, db, pr>>

\* readDerivation and hashDerivationModulo return or throw; on a return
\* drvHashes.insert_or_assign begins
DhHash(t) ==
    /\ ~dh.aborted
    /\ dh.pc[t] = "hash"
    /\ \/ dh' = [dh EXCEPT !.pc[t] = "idle"]
       \/ dh' = [dh EXCEPT !.pc[t] = "insert",
                           !.raced = [u \in DhThreads |->
                                        IF u = t THEN Racing(dh, t, TRUE) # {}
                                        ELSE dh.raced[u] \/ u \in Accessing(dh)],
                           !.overlap = @ \/ Accessing(dh) # {}]
    /\ UNCHANGED <<cacheVars, qv, cp, ev, ssh, db, pr>>

\* drvHashes.insert_or_assign ends and the entry is returned
DhInserted(t) ==
    /\ ~dh.aborted
    /\ dh.pc[t] = "insert"
    /\ \E bad \in (IF dh.raced[t] THEN BOOLEAN ELSE {FALSE}) :
          dh' = [dh EXCEPT !.pc[t] = "idle", !.raced[t] = FALSE,
                           !.table = @ \cup {dh.path[t]},
                           !.corrupt = @ \/ bad]
    /\ UNCHANGED <<cacheVars, qv, cp, ev, ssh, db, pr>>

NextDh ==
    \E t \in DhThreads : DhCall(t) \/ DhFound(t) \/ DhHash(t) \/ DhInserted(t)

SpecDh == InitDh /\ [][NextDh]_vars

\* C22: every read and every insert on drvHashes happens under a mutex: no
\* two threads are inside a call on the table at the same time.
C22_Mutex ==
    /\ Cardinality(Accessing(dh)) <= 1
    /\ ~dh.overlap

BadHash == [kind |-> "BadHash"]
Error(msg) == [kind |-> "Error", msg |-> msg]

\* Hash::Hash(string): the inverse of to_string, BadHash on anything else
HashFromString(str) ==
    IF Len(str) = 3 /\ str[1] \in HashTypes /\ str[2] = ":" /\ str[3] \in Digests
    THEN Ret([type |-> str[1], h |-> str[3]])
    ELSE BadHash

makeFixedOutputCA(method, hash) ==
    <<"fixed", ":">> \o makeFileIngestionPrefix(method) \o HashToString(hash)

\* the rendering of an IPFSHash: "ipfs:" and the hash
renderIPFSHash(hash) == <<"ipfs", ":", "f01711220", hash.h>>

\* renderContentAddress(ContentAddress)
renderContentAddress(ca) ==
    IF ca.kind = "text" THEN <<"text", ":">> \o HashToString(ca.hash)
    ELSE IF ca.kind = "fixed" THEN makeFixedOutputCA(ca.method, ca.hash)
    ELSE renderIPFSHash(ca.hash)

\* rawCa.find(':'): the position of the first colon, 0 when there is none
FindColon(str) ==
    IF \E i \in 1..Len(str) : str[i] = ":"
    THEN CHOOSE i \in 1..Len(str) : str[i] = ":" /\ \A j \in 1..(i - 1) : str[j] # ":"
    ELSE 0

\* str.substr(0, n): at most the first n pieces
Substr(str, n) == SubSeq(str, 1, IF n > Len(str) THEN Len(str) ELSE n)

\* a hash parsed into a fixed-output content address of the given ingestion
\* method, or the failure of the parse
HashInto(str, method) ==
    LET hash == HashFromString(str)
    IN  IF hash.kind = "value" THEN Ret(FixedOutputHash(method, hash.value))
        ELSE hash

parseContentAddressOneMessage(rawCa) ==
    LET prefixSeparator == FindColon(rawCa)
        rest == SubSeq(rawCa, prefixSeparator + 1, Len(rawCa))
    IN  IF prefixSeparator = 0 \/ SubSeq(rawCa, 1, prefixSeparator - 1)
                                     \notin {<<"text">>, <<"fixed">>}
        THEN Error("lacks an appropriate prefix")
        ELSE IF SubSeq(rawCa, 1, prefixSeparator - 1) = <<"text">>
        THEN LET hash == HashFromString(rest)
             IN  IF hash.kind # "value" THEN hash
                 ELSE IF hash.value.type # "sha256"
                 THEN Error("the text hash should have type SHA256")
                 ELSE Ret(TextHash(hash.value))
        ELSE IF Substr(rest, 2) = <<"r", ":">>
        THEN HashInto(SubSeq(rest, 3, Len(rest)), "Recursive")
        ELSE IF Substr(rest, 2) = <<"git", ":">>
        THEN HashInto(SubSeq(rest, 3, Len(rest)), "Git")
        ELSE HashInto(rest, "Flat")

\* parseContentAddress(rawCa)
parseContentAddress(rawCa) ==
    LET prefixSeparator == FindColon(rawCa)
        prefix == SubSeq(rawCa, 1, prefixSeparator - 1)
        rest == SubSeq(rawCa, prefixSeparator + 1, Len(rawCa))
    IN  IF prefixSeparator = 0
        THEN Error("lacks an appropriate prefix")
        ELSE IF prefix = <<"text">>
        THEN LET hash == HashFromString(rest)
             IN  IF hash.kind # "value" THEN hash
                 ELSE IF hash.value.type # "sha256"
                 THEN Error("the text hash should have type SHA256")
                 ELSE Ret(TextHash(hash.value))
        ELSE IF prefix = <<"fixed">>
        THEN IF Substr(rest, 2) = <<"r", ":">>
             THEN HashInto(SubSeq(rest, 3, Len(rest)), "Recursive")
             ELSE IF Substr(rest, 2) = <<"git", ":">>
             THEN HashInto(SubSeq(rest, 3, Len(rest)), "Git")
             ELSE HashInto(rest, "Flat")
        ELSE Error("format not recognized")

\* parseContentAddressOpt(rawCaOpt)
parseContentAddressOpt(rawCaOpt) ==
    IF rawCaOpt = <<>> THEN Ret(NoCa) ELSE parseContentAddress(rawCaOpt)

\* renderContentAddress(std::optional<ContentAddress>)
renderContentAddressOpt(ca) ==
    IF ca = NoCa THEN <<>> ELSE renderContentAddress(ca)

\* the content addresses of every variant
ContentAddresses ==
    {TextHash(h) : h \in {x \in Hashes : x.type = "sha256"}}
        \cup {FixedOutputHash(m, h) : m \in Methods, h \in Hashes}
        \cup {IPFSHash(h) : h \in {x \in Hashes : x.type = "sha256"}}

\* strings given to the parser: the renderings and malformed ones
CaStrings ==
    {renderContentAddress(ca) : ca \in ContentAddresses}
        \cup {<<>>, <<"text">>, <<"junk">>, <<"text", ":">>, <<"fixed", ":">>,
              <<":", "sha256", ":", "h1">>,
              <<"foo", ":", "sha256", ":", "h1">>,
              <<"text", ":", "junk">>,
              <<"fixed", ":", "r", ":", "junk">>,
              <<"fixed", ":", "git", ":">>,
              <<"fixed", ":", "x", ":", "sha256", ":", "h1">>}

InitCa == IdleStores /\ ev = NoEval /\ AuxIdle

CallRenderParse ==
    /\ ev = NoEval
    /\ \E ca \in ContentAddresses :
          ev' = [op |-> "renderParse", ca |-> ca,
                 str |-> renderContentAddress(ca),
                 res |-> parseContentAddress(renderContentAddress(ca))]
    /\ UNCHANGED storeVars

CallParseContentAddressOpt ==
    /\ ev = NoEval
    /\ \E str \in CaStrings :
          ev' = [op |-> "parseContentAddressOpt", str |-> str,
                 res |-> parseContentAddressOpt(str)]
    /\ UNCHANGED storeVars

CallRenderContentAddressOpt ==
    /\ ev = NoEval
    /\ \E ca \in ContentAddresses \cup {NoCa} :
          ev' = [op |-> "renderContentAddressOpt", ca |-> ca,
                 res |-> renderContentAddressOpt(ca)]
    /\ UNCHANGED storeVars

CallMakeFixedOutputPath ==
    /\ ev = NoEval
    /\ \E method \in Methods, hash \in Hashes, refs \in SUBSET RefPaths,
          self \in BOOLEAN :
          LET info == [method |-> method, hash |-> hash,
                       references |-> [references |-> refs,
                                       hasSelfReference |-> self]]
          IN  ev' = [op |-> "makeFixedOutputPath", info |-> info,
                     res |-> makeFixedOutputPath(StoreDir, "foo", info)]
    /\ UNCHANGED storeVars

NextCa ==
    \/ CallRenderParse
    \/ CallParseContentAddressOpt
    \/ CallRenderContentAddressOpt
    \/ CallMakeFixedOutputPath

SpecCa == InitCa /\ [][NextCa]_vars

\* C23: parseContentAddress(renderContentAddress(ca)) = ca for every content
\* address of every variant: Text, FixedOutput with each ingestion method,
\* and IPFS (rendered with the prefix "ipfs:").
C23_RoundTrip ==
    ev.op = "renderParse" => ev.res = Ret(ev.ca)

C25_Original ==
    ev.op = "makeFixedOutputPath" =>
        IF ev.info.method = "Recursive" /\ ev.info.hash.type = "sha256"
        THEN ev.res = Ret([type |-> [base |-> "source",
                                     references |-> ev.info.references.references,
                                     self |-> ev.info.references.hasSelfReference],
                           hash |-> ev.info.hash, dir |-> StoreDir, name |-> "foo"])
        ELSE (ev.info.references = NoRefs) =>
             ev.res = Ret([type |-> [base |-> "output:out", references |-> {},
                                     self |-> FALSE],
                           hash |-> [sha256 |->
                               <<"fixed", ":", "out", ":">>
                               \o (IF ev.info.method = "Flat" THEN <<>>
                                   ELSE IF ev.info.method = "Recursive"
                                   THEN <<"r", ":">> ELSE <<"git", ":">>)
                               \o <<ev.info.hash.type, ":", ev.info.hash.h, ":">>],
                           dir |-> StoreDir, name |-> "foo"])

\* C25: the same, for the calls that return a path: with the method Git and
\* a hash that is not SHA-1 makeFixedOutputPath raises an Error and returns
\* no path, and outside the Recursive SHA-256 case a path is returned only
\* for an info without references and without self-reference.
C25_FixedOutputPath ==
    ev.op = "makeFixedOutputPath" =>
        IF ev.info.method = "Git" /\ ev.info.hash.type # "sha1"
        THEN ev.res = Throw
        ELSE IF ev.info.method = "Recursive" /\ ev.info.hash.type = "sha256"
        THEN ev.res = Ret([type |-> [base |-> "source",
                                     references |-> ev.info.references.references,
                                     self |-> ev.info.references.hasSelfReference],
                           hash |-> ev.info.hash, dir |-> StoreDir, name |-> "foo"])
        ELSE /\ ev.res.kind = "value" <=> ev.info.references = NoRefs
             /\ ev.res.kind = "value" =>
                ev.res = Ret([type |-> [base |-> "output:out", references |-> {},
                                        self |-> FALSE],
                              hash |-> [sha256 |->
                                  <<"fixed", ":", "out", ":">>
                                  \o (IF ev.info.method = "Flat" THEN <<>>
                                      ELSE IF ev.info.method = "Recursive"
                                      THEN <<"r", ":">> ELSE <<"git", ":">>)
                                  \o <<ev.info.hash.type, ":", ev.info.hash.h, ":">>],
                              dir |-> StoreDir, name |-> "foo"])

C25_Witness ==
    /\ ev.op = "makeFixedOutputPath"
    /\ ev.info.method = "Git"
    /\ ev.info.hash.type = "sha1"
    /\ ev.res.kind = "value"

(***************************************************************************)
(* SpecSsh: the connections of one LegacySSHStore.  Pool<Connection> keeps *)
(* the idle connections in a vector and counts those in use; get() pops    *)
(* idle connections until one passes the validator (r->good) and otherwise *)
(* calls the factory (openConnection); a handle that goes out of scope     *)
(* pushes its connection back on the idle vector.  ssh.conn[c].io is       *)
(* history: some operation on the connection hit an I/O error.             *)
(***************************************************************************)
SshMaxConnections == 2

ConnIds == 1..SshMaxConnections

GET_PROTOCOL_MAJOR(x) == ((x \div 256) % 256) * 256
GET_PROTOCOL_MINOR(x) == x % 256

\* versions a peer may announce: 2.4, 2.5, 1.5, 3.0
ProtocolVersions == {516, 517, 261, 768}

\* what the peer sends back during the handshake: nothing, a magic number
\* only, or a magic number and a version
Answers ==
    {[sent |-> "both", magic |-> m, version |-> v] :
        m \in {"SERVE_MAGIC_2", "other"}, v \in ProtocolVersions}
        \cup {[sent |-> "magic", magic |-> m, version |-> 0] :
                 m \in {"SERVE_MAGIC_2", "other"}}
        \cup {[sent |-> "nothing", magic |-> "other", version |-> 0]}

openConnectionAnyVersion(answer) ==
    IF answer.sent = "nothing" THEN Error("cannot connect")
    ELSE IF answer.magic # "SERVE_MAGIC_2" THEN Error("protocol mismatch")
    ELSE IF answer.sent = "magic" THEN Error("cannot connect")
    ELSE Ret([good |-> TRUE, remoteVersion |-> answer.version])

\* LegacySSHStore::openConnection
openConnection(answer) ==
    IF answer.sent = "nothing" THEN Error("cannot connect")
    ELSE IF answer.magic # "SERVE_MAGIC_2" THEN Error("protocol mismatch")
    ELSE IF answer.sent = "magic" THEN Error("cannot connect")
    ELSE IF GET_PROTOCOL_MAJOR(answer.version) # 512
    THEN Error("unsupported protocol version")
    ELSE Ret([good |-> TRUE, remoteVersion |-> answer.version])

SshOps == {"queryPathInfoUncached", "addToStore", "narFromPath",
           "buildDerivation", "computeFSClosure", "queryValidPaths"}

\* how an operation on a connection may end: the connection's good flag
\* afterwards and whether an I/O error on the connection ended it
OpOutcomes(op, good) ==
    {[good |-> good, io |-> FALSE],            \* done, or an error in the reply
     [good |-> good, io |-> TRUE]}             \* a write, flush or read failed
        \cup (IF op = "addToStore"
              THEN {[good |-> FALSE, io |-> TRUE]}    \* copyNAR failed
              ELSE {})

NoConn == [st |-> "none", good |-> TRUE, remoteVersion |-> 0, io |-> FALSE,
           op |-> "none"]
NoOpen == [op |-> "none"]

InitSsh ==
    /\ IdleStores /\ ev = NoEval
    /\ dh = DhIdle /\ db = DbIdle /\ pr = PrIdle
    /\ ssh = [pc |-> "on",
              conn |-> [c \in ConnIds |-> NoConn],
              idle |-> <<>>,
              last |-> NoOpen]

InUse(s) == {c \in ConnIds : s.conn[c].st = "used"}

RECURSIVE PopValid(_)
\* the loop of Pool::get over the idle vector: s.got is the connection that
\* passed the validator, 0 when the vector ran empty
PopValid(s) ==
    IF s.idle = <<>> THEN [s EXCEPT !.got = 0]
    ELSE LET c == s.idle[Len(s.idle)]
             rest == SubSeq(s.idle, 1, Len(s.idle) - 1)
         IN  IF s.conn[c].good
             THEN [s EXCEPT !.idle = rest, !.got = c]
             ELSE PopValid([s EXCEPT !.idle = rest, !.conn[c] = NoConn])

\* an operation starts: auto conn(connections->get())
SshGet(op) ==
    /\ ssh.pc = "on"
    /\ ssh.idle # <<>> \/ Cardinality(InUse(ssh)) < SshMaxConnections
    /\ LET s == PopValid([pc |-> ssh.pc, conn |-> ssh.conn, idle |-> ssh.idle,
                          last |-> ssh.last, got |-> 0])
           pool == [pc |-> s.pc, conn |-> s.conn, idle |-> s.idle, last |-> NoOpen]
       IN  IF s.got # 0
           THEN ssh' = [pool EXCEPT !.conn[s.got].st = "used",
                                    !.conn[s.got].op = op]
           ELSE \E answer \in Answers :
                   LET r == openConnection(answer)
                       c == CHOOSE x \in ConnIds : s.conn[x].st = "none"
                   IN  ssh' = IF r.kind = "value"
                              THEN [pool EXCEPT
                                      !.conn[c] = [st |-> "used", good |-> r.value.good,
                                                   remoteVersion |-> r.value.remoteVersion,
                                                   io |-> FALSE, op |-> op],
                                      !.last = [op |-> "openConnection",
                                                answer |-> answer, res |-> r,
                                                conn |-> c]]
                              ELSE [pool EXCEPT
                                      !.last = [op |-> "openConnection",
                                                answer |-> answer, res |-> r,
                                                conn |-> 0]]
    /\ UNCHANGED <<cacheVars, qv, cp, ev, dh, db, pr>>

\* the operation on connection c ends and its handle goes out of scope
SshFinish(c) ==
    /\ ssh.pc = "on"
    /\ ssh.conn[c].st = "used"
    /\ \E o \in OpOutcomes(ssh.conn[c].op, ssh.conn[c].good) :
          ssh' = [ssh EXCEPT !.conn[c].st = "idle",
                             !.conn[c].op = "none",
                             !.conn[c].good = o.good,
                             !.conn[c].io = @ \/ o.io,
                             !.idle = Append(@, c),
                             !.last = NoOpen]
    /\ UNCHANGED <<cacheVars, qv, cp, ev, dh, db, pr>>

NextSsh ==
    \/ \E op \in SshOps : SshGet(op)
    \/ \E c \in ConnIds : SshFinish(c)

SpecSsh == InitSsh /\ [][NextSsh]_vars

\* C27: a connection on which an operation hit an I/O error is marked bad
\* (good = false) before it is returned to the pool, and is never handed out
\* to a later operation.
C27_BadDiscarded ==
    \A c \in ConnIds :
        ssh.conn[c].io => (ssh.conn[c].st = "idle" /\ ~ssh.conn[c].good)

\* C28 as stated: openConnection hands out a connection only after the peer
\* answered with SERVE_MAGIC_2 and a version whose major part is 0x200; a
\* wrong magic or another major version raises the error kind
\* ProtocolMismatch, an end of file raises a connection error, and in these
\* cases no connection enters the pool.
C28_Original ==
    ssh.last.op = "openConnection" =>
        LET a == ssh.last.answer
            answered == a.magic = "SERVE_MAGIC_2" /\ a.sent = "both"
        IN  /\ ssh.last.conn # 0 <=>
                 (answered /\ GET_PROTOCOL_MAJOR(a.version) = 512)
            /\ ssh.last.conn # 0 <=> ssh.last.res.kind = "value"
            /\ ((a.sent # "nothing" /\ a.magic = "other")
                   \/ (answered /\ GET_PROTOCOL_MAJOR(a.version) # 512))
                  => ssh.last.res.kind = "ProtocolMismatch"
            /\ (a.sent = "nothing" \/ (a.magic = "SERVE_MAGIC_2" /\ a.sent = "magic"))
                  => ssh.last.res = Error("cannot connect")

\* C28: openConnection hands out a connection only after the peer answered
\* with SERVE_MAGIC_2 and a version whose major part is 0x200; a wrong magic
\* raises an Error "protocol mismatch", another major version an Error
\* "unsupported protocol version", an end of file an Error "cannot connect",
\* all of the one kind Error, and in these cases no connection enters the
\* pool.
C28_Handshake ==
    /\ [](ssh.last.op = "openConnection" =>
        LET a == ssh.last.answer
            answered == a.magic = "SERVE_MAGIC_2" /\ a.sent = "both"
        IN  /\ ssh.last.conn # 0 <=>
                 (answered /\ GET_PROTOCOL_MAJOR(a.version) = 512)
            /\ ssh.last.conn # 0 <=> ssh.last.res.kind = "value"
            /\ ssh.last.conn # 0 =>
                 /\ ssh.conn[ssh.last.conn].st = "used"
                 /\ ssh.conn[ssh.last.conn].remoteVersion = a.version
            /\ (a.sent # "nothing" /\ a.magic = "other")
                  => ssh.last.res = Error("protocol mismatch")
            /\ (answered /\ GET_PROTOCOL_MAJOR(a.version) # 512)
                  => ssh.last.res = Error("unsupported protocol version")
            /\ (a.sent = "nothing" \/ (a.magic = "SERVE_MAGIC_2" /\ a.sent = "magic"))
                  => ssh.last.res = Error("cannot connect"))
    /\ [][(ssh'.last.op = "openConnection" /\ ssh'.last.res.kind # "value")
             => \A c \in ConnIds :
                   ssh'.conn[c].st # "none" => ssh.conn[c].st # "none"]_vars

C28_Witness ==
    /\ ssh.last.op = "openConnection"
    /\ ssh.last.answer.magic = "SERVE_MAGIC_2"
    /\ ssh.last.answer.version = 768
    /\ ssh.last.conn = 0
    /\ ssh.last.res.kind = "Error"

(***************************************************************************)
(* openStore.  A URI is the sequence of its pieces: the scheme or the      *)
(* leading "/" or "./", the rest, and after a "?" the parameters.  The     *)
(* backends are the two registered in these sources: LegacySSHStore and    *)
(* the local / daemon one; the order in which their static registrations   *)
(* run is not fixed.                                                       *)
(***************************************************************************)
Uris ==
    {<<"ssh://", "host">>, <<"ssh://", "host", "?", "state=/s">>,
     <<"ssh://", "host", "?", "state=/s", "?", "root=/r">>,
     <<"daemon">>, <<"daemon", "?", "root=/r">>,
     <<"local">>, <<"local", "?", "state=/s">>,
     <<"/", "dir">>, <<"./", "dir">>, <<"./", "dir", "?", "root=/r">>,
     <<>>, <<"auto">>, <<"auto", "?", "state=/s">>,
     <<"file://", "x">>, <<"file://", "x", "?", "root=/r">>,
     <<"?", "root=/r">>, <<"sshx">>}

\* uri.find('?')
FindQuery(uri) ==
    IF \E i \in 1..Len(uri) : uri[i] = "?"
    THEN CHOOSE i \in 1..Len(uri) : uri[i] = "?" /\ \A j \in 1..(i - 1) : uri[j] # "?"
    ELSE 0

\* decodeQuery: the parameters of the pieces after the "?"
decodeQuery(query) ==
    LET keys == {"state" : i \in {j \in 1..Len(query) : query[j] = "state=/s"}}
                  \cup {"root" : i \in {j \in 1..Len(query) : query[j] = "root=/r"}}
    IN  [k \in keys |-> IF k = "state" THEN "/s" ELSE "/r"]

splitUriAndParamsNoSplit(uri_) ==
    [uri |-> uri_, params |-> EmptyMap]

\* splitUriAndParams
splitUriAndParams(uri_) ==
    LET q == FindQuery(uri_)
    IN  IF q # 0
        THEN [uri |-> SubSeq(uri_, 1, q - 1),
              params |-> decodeQuery(SubSeq(uri_, q + 1, Len(uri_)))]
        ELSE [uri |-> uri_, params |-> EmptyMap]

\* params.insert(uriParams.begin(), uriParams.end()): present keys are kept
InsertParams(params, uriParams) ==
    [k \in DOMAIN params \cup DOMAIN uriParams |->
        IF k \in DOMAIN params THEN params[k] ELSE uriParams[k]]

\* getStoreType; env tells whether the state directory is writable and
\* whether the daemon socket exists
getStoreType(uri, env) ==
    IF uri = <<"daemon">> THEN "tDaemon"
    ELSE IF uri = <<"local">> \/ (uri # <<>> /\ uri[1] \in {"/", "./"}) THEN "tLocal"
    ELSE IF uri = <<>> \/ uri = <<"auto">>
    THEN (IF env.stateDirWritable THEN "tLocal"
          ELSE IF env.socketExists THEN "tDaemon"
          ELSE "tLocal")
    ELSE "tOther"

NoStore == [kind |-> "nullptr"]

\* the store implementation registered by store-api.cc
regStoreLocal(uri, params, env) ==
    LET type == getStoreType(uri, env)
    IN  IF type = "tDaemon" THEN [kind |-> "UDSRemoteStore", params |-> params]
        ELSE IF type = "tLocal"
        THEN [kind |-> "LocalStore",
              params |-> IF uri # <<>> /\ uri[1] \in {"/", "./"}
                         THEN [k \in DOMAIN params \cup {"root"} |->
                                 IF k = "root" THEN uri ELSE params[k]]
                         ELSE params]
        ELSE NoStore

\* the store implementation registered by legacy-ssh-store.cc
regStoreSsh(uri, params) ==
    IF uri = <<>> \/ uri[1] # "ssh://" THEN NoStore
    ELSE [kind |-> "LegacySSHStore", host |-> Tail(uri), params |-> params]

Backends == {"local", "ssh"}

\* a registered implementation called on a URI
CallBackend(fun, uri, params, env) ==
    IF fun = "ssh" THEN regStoreSsh(uri, params)
    ELSE regStoreLocal(uri, params, env)

RECURSIVE TryBackends(_, _, _, _, _)
\* the loop of openStore over the implementations from the i-th on; called
\* is the list of those called so far
TryBackends(implementations, i, split, env, called) ==
    IF i > Len(implementations)
    THEN [res |-> Error("don't know how to open Nix store"),
          called |-> called, uri |-> split.uri]
    ELSE LET store == CallBackend(implementations[i], split.uri, split.params, env)
         IN  IF store # NoStore
             THEN [res |-> Ret(store), called |-> Append(called, implementations[i]),
                   uri |-> split.uri]
             ELSE TryBackends(implementations, i + 1, split, env,
                              Append(called, implementations[i]))

\* openStore(uri_, extraParams)
openStore(implementations, uri_, extraParams, env) ==
    LET split == splitUriAndParams(uri_)
        params == InsertParams(extraParams, split.params)
    IN  TryBackends(implementations, 1, [uri |-> split.uri, params |-> params],
                    env, <<>>)

InitOpen == IdleStores /\ ev = NoEval /\ AuxIdle

CallOpenStore ==
    /\ ev = NoEval
    /\ \E implementations \in {<<"local", "ssh">>, <<"ssh", "local">>},
          uri \in Uris,
          extraParams \in {EmptyMap, [k \in {"state"} |-> "/e"]},
          stateDirWritable \in BOOLEAN, socketExists \in BOOLEAN :
          LET env == [stateDirWritable |-> stateDirWritable,
                      socketExists |-> socketExists]
          IN  ev' = [op |-> "openStore", implementations |-> implementations,
                     uri |-> uri, extraParams |-> extraParams, env |-> env,
                     out |-> openStore(implementations, uri, extraParams, env)]
    /\ UNCHANGED storeVars

NextOpen == CallOpenStore

SpecOpen == InitOpen /\ [][NextOpen]_vars

\* C26: openStore offers the URI without its query string to the registered
\* backends in registration order, returns the store built by the first one
\* that accepts it without calling a later one, and raises an error and
\* returns no store when none accepts.
C26_OpenStore ==
    ev.op = "openStore" =>
        LET o == ev.out
            n == Len(o.called)
            accepts(b) == CallBackend(b, o.uri, EmptyMap, ev.env) # NoStore
        IN  /\ \A i \in 1..Len(o.uri) : o.uri[i] # "?"
            /\ \/ o.uri = ev.uri
               \/ /\ Len(ev.uri) > Len(o.uri)
                  /\ SubSeq(ev.uri, 1, Len(o.uri) + 1) = Append(o.uri, "?")
            /\ n <= Len(ev.implementations)
            /\ o.called = SubSeq(ev.implementations, 1, n)
            /\ \A i \in 1..(n - 1) : ~accepts(o.called[i])
            /\ IF \E b \in Backends : accepts(b)
               THEN /\ n >= 1
                    /\ accepts(o.called[n])
                    /\ o.res.kind = "value"
                    /\ o.res.value.kind =
                         (IF o.called[n] = "ssh" THEN "LegacySSHStore"
                          ELSE CallBackend("local", o.uri, EmptyMap, ev.env).kind)
               ELSE /\ n = Len(ev.implementations)
                    /\ o.res.kind = "Error"

C26_Witness ==
    /\ ev.op = "openStore"
    /\ ev.uri = <<"ssh://", "host", "?", "state=/s">>
    /\ ev.out.called = <<"local", "ssh">>
    /\ ev.out.res.kind = "value"

(***************************************************************************)
(* SpecDb: the registry schema, tables ValidPaths and Refs, with foreign    *)
(* keys enforced.  A ValidPaths row is its id (autoincrement: an id is     *)
(* never given twice); a Refs row is the pair <<referrer, reference>>.     *)
(* A statement that violates a constraint fails and changes nothing, the   *)
(* work of its triggers included.  db.last is the last statement.          *)
(***************************************************************************)
DbMaxIds == 3
DbMaxRefs == 3

DbIds == 1..DbMaxIds

InitDb ==
    /\ IdleStores /\ ev = NoEval
    /\ dh = DhIdle /\ ssh = SshIdle /\ pr = PrIdle
    /\ db = [pc |-> "on", ValidPaths |-> {}, Refs |-> {}, seq |-> 0,
             last |-> [op |-> "none"]]

DeleteSelfRefsNone(refs, id) == refs

\* trigger DeleteSelfRefs before delete on ValidPaths
DeleteSelfRefs(refs, id) == refs \ {<<id, id>>}

\* insert into ValidPaths
DbInsertPath ==
    /\ db.pc = "on"
    /\ db.seq < DbMaxIds
    /\ db' = [db EXCEPT !.ValidPaths = @ \cup {db.seq + 1},
                        !.seq = @ + 1,
                        !.last = [op |-> "insertPath", id |-> db.seq + 1, ok |-> TRUE]]
    /\ UNCHANGED <<cacheVars, qv, cp, ev, dh, ssh, pr>>

\* insert into Refs (referrer, reference): primary key and both foreign keys
DbInsertRef(referrer, reference) ==
    /\ db.pc = "on"
    /\ Cardinality(db.Refs) < DbMaxRefs
    /\ LET ok == /\ <<referrer, reference>> \notin db.Refs
                 /\ referrer \in db.ValidPaths
                 /\ reference \in db.ValidPaths
       IN  db' = [db EXCEPT !.Refs = IF ok THEN @ \cup {<<referrer, reference>>} ELSE @,
                            !.last = [op |-> "insertRef", id |-> referrer, ok |-> ok]]
    /\ UNCHANGED <<cacheVars, qv, cp, ev, dh, ssh, pr>>

\* delete from Refs where referrer = ... and reference = ...
DbDeleteRef(referrer, reference) ==
    /\ db.pc = "on"
    /\ <<referrer, reference>> \in db.Refs
    /\ db' = [db EXCEPT !.Refs = @ \ {<<referrer, reference>>},
                        !.last = [op |-> "deleteRef", id |-> referrer, ok |-> TRUE]]
    /\ UNCHANGED <<cacheVars, qv, cp, ev, dh, ssh, pr>>

\* delete from ValidPaths where id = ...: the trigger, then "on delete
\* restrict" of Refs.reference, then "on delete cascade" of Refs.referrer
DbDeletePath(id) ==
    /\ db.pc = "on"
    /\ id \in db.ValidPaths
    /\ LET refs1 == DeleteSelfRefs(db.Refs, id)
           ok == ~\E r \in refs1 : r[2] = id
       IN  db' = IF ok
                 THEN [db EXCEPT !.ValidPaths = @ \ {id},
                                 !.Refs = {r \in refs1 : r[1] # id},
                                 !.last = [op |-> "deletePath", id |-> id, ok |-> TRUE,
                                           self |-> <<id, id>> \in db.Refs]]
                 ELSE [db EXCEPT !.last = [op |-> "deletePath", id |-> id, ok |-> FALSE,
                                           self |-> <<id, id>> \in db.Refs]]
    /\ UNCHANGED <<cacheVars, qv, cp, ev, dh, ssh, pr>>

NextDb ==
    \/ DbInsertPath
    \/ \E referrer, reference \in DbIds : DbInsertRef(referrer, reference)
    \/ \E referrer, reference \in DbIds : DbDeleteRef(referrer, reference)
    \/ \E id \in DbIds : DbDeletePath(id)

SpecDb == InitDb /\ [][NextDb]_vars

PrPaths == {"p", "q", "r", "s"}

\* PathReferences::insertReferencePossiblyToSelf on the object x
insertReferencePossiblyToSelf(x, self, ref) ==
    IF ref = self THEN [x EXCEPT !.hasSelfReference = TRUE]
    ELSE [x EXCEPT !.references = @ \cup {ref}]

InitPr ==
    /\ IdleStores /\ ev = NoEval
    /\ dh = DhIdle /\ ssh = SshIdle /\ db = DbIdle
    /\ \E self \in PrPaths :
          pr = [pc |-> "on", self |-> self,
                x |-> [references |-> {}, hasSelfReference |-> FALSE],
                last |-> [op |-> "none"]]

PrInsert(ref) ==
    /\ pr.pc = "on"
    /\ pr' = [pr EXCEPT !.x = insertReferencePossiblyToSelf(pr.x, pr.self, ref),
                        !.last = [op |-> "insertReferencePossiblyToSelf",
                                  ref |-> ref]]
    /\ UNCHANGED <<cacheVars, qv, cp, ev, dh, ssh, db>>

PrSet(refs) ==
    /\ pr.pc = "on"
    /\ pr' = [pr EXCEPT !.x = setReferencesPossiblyToSelf(pr.x, pr.self, refs),
                        !.last = [op |-> "setReferencesPossiblyToSelf",
                                  refs |-> refs]]
    /\ UNCHANGED <<cacheVars, qv, cp, ev, dh, ssh, db>>

NextPr ==
    \/ \E ref \in PrPaths : PrInsert(ref)
    \/ \E refs \in SUBSET PrPaths : PrSet(refs)

SpecPr == InitPr /\ [][NextPr]_vars

\* C30: after setReferencesPossiblyToSelf(self, refs), hasSelfReference is
\* true exactly when self is in refs (a flag set earlier is cleared when self
\* is not in refs) and references is refs without self; and after any
\* sequence of insertReferencePossiblyToSelf and setReferencesPossiblyToSelf
\* calls with one self, self is never an element of references.
C30_SetReferences ==
    /\ pr.self \notin pr.x.references
    /\ pr.last.op = "setReferencesPossiblyToSelf" =>
          /\ pr.x.hasSelfReference <=> pr.self \in pr.last.refs
          /\ pr.x.references = pr.last.refs \ {pr.self}

(***************************************************************************)
(* SpecReg: Store::makeValidityRegistration and decodeValidPathInfo.  The  *)
(* registration text is the sequence of its lines; a line is the sequence  *)
(* of its pieces (the empty line is <<>>).                                 *)
(***************************************************************************)
RegOrder == <<"p", "q">>
RegPaths == {RegOrder[i] : i \in DOMAIN RegOrder}
RegDerivers == {"d"}
RegDigests == {"h1", "h2"}
MaxNarSize == 1
DigitStr == <<"0", "1", "2", "3", "4", "5", "6", "7", "8", "9">>

\* a std::set of store paths, iterated in its order
InOrder(S) ==
    LET In(x) == x \in S
    IN  SelectSeq(RegOrder, In)

\* Store::printStorePath: the store directory, then the base name
printStorePath(path) == <<StoreDir, path>>

\* Store::parseStorePath: the path must be directly in the store directory
parseStorePath(line) ==
    IF Len(line) = 2 /\ line[1] = StoreDir THEN Ret(line[2]) ELSE Throw

\* (format("%1%") % n).str() for a number of one digit
formatInt(n) == <<DigitStr[n + 1]>>

\* string2Int
string2Int(line) ==
    IF Len(line) = 1 /\ \E i \in DOMAIN DigitStr : DigitStr[i] = line[1]
    THEN Ret((CHOOSE i \in DOMAIN DigitStr : DigitStr[i] = line[1]) - 1)
    ELSE Throw

\* Hash::to_string(Base16, false): the digest without the type
HashToBase16(hash) == <<hash.h>>

\* Hash::parseAny(s, htSHA256)
HashParseAny(line) ==
    IF Len(line) = 1 /\ line[1] \in RegDigests
    THEN Ret([type |-> "sha256", h |-> line[1]])
    ELSE Throw

RECURSIVE RegLines(_, _)
RegLines(refs, i) ==
    IF i > Len(refs) THEN <<>>
    ELSE <<printStorePath(refs[i])>> \o RegLines(refs, i + 1)

\* the lines makeValidityRegistration appends for one path
RegEntry(i, info, showDerivers, showHash) ==
    <<printStorePath(i)>>
    \o (IF showHash THEN <<HashToBase16(info.narHash), formatInt(info.narSize)>>
        ELSE <<>>)
    \o <<IF showDerivers /\ info.deriver # "" THEN printStorePath(info.deriver)
         ELSE <<>>>>
    \o <<formatInt(Cardinality(info.references))>>
    \o RegLines(InOrder(info.references), 1)

RegEntryPossiblyToSelf(i, info, showDerivers, showHash) ==
    RegEntry(i, [info EXCEPT !.references =
                     referencesPossiblyToSelf(info, i)],
             showDerivers, showHash)

RECURSIVE RegText(_, _, _, _, _)
RegText(paths, k, infos, showDerivers, showHash) ==
    IF k > Len(paths) THEN <<>>
    ELSE RegEntry(paths[k], infos[paths[k]], showDerivers, showHash)
         \o RegText(paths, k + 1, infos, showDerivers, showHash)

\* Store::makeValidityRegistration; infos is what queryPathInfo answers
makeValidityRegistration(paths, infos, showDerivers, showHash) ==
    RegText(InOrder(paths), 1, infos, showDerivers, showHash)

\* the loop of decodeValidPathInfo over the n reference lines
RECURSIVE DecodeRefs(_, _, _)
DecodeRefs(str, n, info) ==
    IF n = 0 THEN Ret([eof |-> FALSE, info |-> info, rest |-> str])
    ELSE IF str = <<>> THEN Throw
    ELSE LET ref == parseStorePath(Head(str))
         IN  IF ref.kind # "value" THEN ref
             ELSE DecodeRefs(Tail(str), n - 1,
                      [info EXCEPT !.x = insertReferencePossiblyToSelf(
                                             info.x, info.path, ref.value)])

\* decodeValidPathInfo reading from the lines str: no info at end of input,
\* else the info and the lines left, or the error
decodeValidPathInfo(str, hashGiven) ==
    IF str = <<>> THEN Ret([eof |-> TRUE])
    ELSE
    LET path == parseStorePath(Head(str))
        s1 == Tail(str)
        hashLines == IF hashGiven THEN 2 ELSE 0
        narHash == IF hashGiven /\ Len(s1) >= 1 THEN HashParseAny(s1[1])
                   ELSE Ret([type |-> "none", h |-> ""])
        narSize == IF hashGiven /\ Len(s1) >= 2 THEN string2Int(s1[2])
                   ELSE Ret(0)
        s2 == SubSeq(s1, hashLines + 1, Len(s1))
    IN  IF path.kind # "value" THEN path
        ELSE IF Len(s1) < hashLines + 2 THEN Throw
        ELSE IF narHash.kind # "value" THEN narHash
        ELSE IF narSize.kind # "value" THEN narSize
        ELSE LET deriver == IF s2[1] # <<>> THEN parseStorePath(s2[1]) ELSE Ret("")
                 n == string2Int(s2[2])
             IN  IF deriver.kind # "value" THEN deriver
                 ELSE IF n.kind # "value" THEN n
                 ELSE DecodeRefs(SubSeq(s2, 3, Len(s2)), n.value,
                          [path |-> path.value, narHash |-> narHash.value,
                           narSize |-> narSize.value, deriver |-> deriver.value,
                           x |-> [references |-> {}, hasSelfReference |-> FALSE]])

\* decodeValidPathInfo called until it returns no info
RECURSIVE DecodeAll(_, _)
DecodeAll(str, hashGiven) ==
    LET d == decodeValidPathInfo(str, hashGiven)
    IN  IF d.kind # "value" THEN <<d>>
        ELSE IF d.value.eof THEN <<>>
        ELSE <<Ret(d.value.info)>> \o DecodeAll(d.value.rest, hashGiven)

\* what the store reports for a valid path
RegInfos ==
    [narHash : {[type |-> "sha256", h |-> d] : d \in RegDigests},
     narSize : 0..MaxNarSize, deriver : RegDerivers \cup {""},
     references : SUBSET RegPaths, hasSelfReference : BOOLEAN]

InitReg == IdleStores /\ ev = NoEval /\ AuxIdle

CallMakeValidityRegistration ==
    /\ ev = NoEval
    /\ \E paths \in SUBSET RegPaths, showDerivers \in BOOLEAN, showHash \in BOOLEAN :
       \E infos \in [paths -> RegInfos] :
          /\ \A i \in paths : i \notin infos[i].references
          /\ LET s == makeValidityRegistration(paths, infos, showDerivers, showHash)
             IN  ev' = [op |-> "makeValidityRegistration", paths |-> paths,
                        infos |-> infos, showDerivers |-> showDerivers,
                        showHash |-> showHash, s |-> s,
                        decoded |-> DecodeAll(s, showHash)]
    /\ UNCHANGED storeVars

CallDecodeValidPathInfo ==
    /\ ev = NoEval
    /\ \E hashGiven \in BOOLEAN, i \in RegPaths, info \in RegInfos,
          cut \in 0..5 :
          LET s == RegEntryPossiblyToSelf(i, info, TRUE, hashGiven)
              str == SubSeq(s, 1, IF cut > Len(s) THEN Len(s) ELSE cut)
          IN  /\ i \notin info.references
              /\ ev' = [op |-> "decodeValidPathInfo", str |-> str,
                        hashGiven |-> hashGiven,
                        res |-> decodeValidPathInfo(str, hashGiven)]
    /\ UNCHANGED storeVars

NextReg == CallMakeValidityRegistration \/ CallDecodeValidPathInfo

SpecReg == InitReg /\ [][NextReg]_vars

\* the info decoded for the k-th path is the one the store reported
RegSame(k) ==
    LET i == InOrder(ev.paths)[k]
        info == ev.infos[i]
        d == ev.decoded[k]
    IN  /\ d.kind = "value"
        /\ d.value.path = i
        /\ ev.showHash => /\ d.value.narHash = info.narHash
                          /\ d.value.narSize = info.narSize
        /\ ev.showDerivers => d.value.deriver = info.deriver
        /\ d.value.x.references = info.references
        /\ d.value.x.hasSelfReference = info.hasSelfReference

\* C31: the text made by makeValidityRegistration is accepted by
\* decodeValidPathInfo, and decoding it with the same showHash setting gives
\* for each path the path, narHash, narSize, deriver (when shown), references
\* and hasSelfReference the store reported, self-referencing paths included.
C31_Registration ==
    ev.op = "makeValidityRegistration" =>
        /\ Len(ev.decoded) = Cardinality(ev.paths)
        /\ \A k \in 1..Len(ev.decoded) : RegSame(k)

(***************************************************************************)
(* SpecFetch: builtinFetchurl.  env is drv.env (an attribute is a key of   *)
(* the function or is missing), mirrors is settings.hashedMirrors, and     *)
(* outcomes[n] tells whether the n-th call of fetch succeeds.  The result  *)
(* is how the builtin ends and the calls of fetch it made.                 *)
(***************************************************************************)
MaxFetches == 3
MirrorLists ==
    {<<>>, <<"m1/">>, <<"m2">>, <<"m1/", "m2">>, <<"m2", "m1/">>}

\* hasSuffix(hashedMirror, "/"), a mirror being named with or without it
MirrorHasSlash(hashedMirror) == hashedMirror = "m1/"

\* parseHashType and Hash(string, ht) on the two attributes
FetchHash(env) ==
    IF "outputHashAlgo" \notin DOMAIN env THEN Throw
    ELSE IF env["outputHashAlgo"] \notin HashTypes THEN Throw
    ELSE IF "outputHash" \notin DOMAIN env THEN Throw
    ELSE IF env["outputHash"] \notin Digests THEN Throw
    ELSE Ret([type |-> env["outputHashAlgo"], h |-> env["outputHash"]])

\* hashedMirror + printHashType(h.type) + "/" + h.to_string(Base16, false)
MirrorUrl(hashedMirror, h) ==
    (IF MirrorHasSlash(hashedMirror) THEN <<hashedMirror>>
     ELSE <<hashedMirror, "/">>) \o <<h.type, "/", h.h>>

FetchResult(kind, trace) == [kind |-> kind, trace |-> trace]

\* fetch(url) as the next call of fetch
Fetch(url, outcomes, trace) ==
    Append(trace, [url |-> url, ok |-> outcomes[Len(trace) + 1]])

RECURSIVE TryMirrorsRethrow(_, _, _, _, _)
TryMirrorsRethrow(mirrors, k, env, outcomes, trace) ==
    IF k > Len(mirrors) THEN FetchResult("next", trace)
    ELSE LET h == FetchHash(env)
         IN  IF h.kind # "value" THEN FetchResult("Error", trace)
             ELSE LET t2 == Fetch(MirrorUrl(mirrors[k], h.value), outcomes, trace)
                  IN  IF t2[Len(t2)].ok THEN FetchResult("return", t2)
                      ELSE FetchResult("Error", t2)

\* the loop over settings.hashedMirrors with its try and catch (Error &)
RECURSIVE TryMirrors(_, _, _, _, _)
TryMirrors(mirrors, k, env, outcomes, trace) ==
    IF k > Len(mirrors) THEN FetchResult("next", trace)
    ELSE LET h == FetchHash(env)
         IN  IF h.kind # "value"
             THEN TryMirrors(mirrors, k + 1, env, outcomes, trace)
             ELSE LET t2 == Fetch(MirrorUrl(mirrors[k], h.value), outcomes, trace)
                  IN  IF t2[Len(t2)].ok THEN FetchResult("return", t2)
                      ELSE TryMirrors(mirrors, k + 1, env, outcomes, t2)

\* builtinFetchurl(drv, netrcData)
builtinFetchurl(env, mirrors, outcomes) ==
    IF "out" \notin DOMAIN env \/ "url" \notin DOMAIN env
    THEN FetchResult("Error", <<>>)
    ELSE IF "outputHashMode" \notin DOMAIN env
    THEN FetchResult("Error", <<>>)
    ELSE LET m == IF env["outputHashMode"] = "flat"
                  THEN TryMirrors(mirrors, 1, env, outcomes, <<>>)
                  ELSE FetchResult("next", <<>>)
         IN  IF m.kind # "next" THEN m
             ELSE LET t2 == Fetch(<<env["url"]>>, outcomes, m.trace)
                  IN  FetchResult(IF t2[Len(t2)].ok THEN "return" ELSE "Error", t2)

\* the environments of a derivation whose builder is builtin:fetchurl
FetchEnvs ==
    UNION {[keys -> {"x"}] : keys \in SUBSET {"out", "url", "outputHashMode",
                                              "outputHashAlgo", "outputHash"}}

FetchEnv(present, mode, algo, hash) ==
    [k \in DOMAIN present |->
        IF k = "out" THEN "/o1"
        ELSE IF k = "url" THEN "u"
        ELSE IF k = "outputHashMode" THEN mode
        ELSE IF k = "outputHashAlgo" THEN algo
        ELSE hash]

InitFetch == IdleStores /\ ev = NoEval /\ AuxIdle

CallBuiltinFetchurl ==
    /\ ev = NoEval
    /\ \E present \in FetchEnvs, mode \in {"flat", "recursive"},
          algo \in {"sha256", "bogus"}, hash \in {"h1", "zz"},
          mirrors \in MirrorLists, outcomes \in [1..MaxFetches -> BOOLEAN] :
          LET env == FetchEnv(present, mode, algo, hash)
          IN  ev' = [op |-> "builtinFetchurl", env |-> env, mirrors |-> mirrors,
                     outcomes |-> outcomes,
                     res |-> builtinFetchurl(env, mirrors, outcomes)]
    /\ UNCHANGED storeVars

NextFetch == CallBuiltinFetchurl

SpecFetch == InitFetch /\ [][NextFetch]_vars

\* the calls of fetch on a mirror, and those on the main URL
MirrorFetches(trace) == {n \in DOMAIN trace : Len(trace[n].url) > 1}
MainFetches(trace) == {n \in DOMAIN trace : Len(trace[n].url) = 1}

\* the order, the stop at the first success, the main URL as the last resort
\* and the errors that propagate
FetchOrder ==
    LET trace == ev.res.trace
        mf == MirrorFetches(trace)
    IN  /\ mf # {} => "outputHashMode" \in DOMAIN ev.env
                      /\ ev.env["outputHashMode"] = "flat"
        /\ \A n \in mf :
              /\ n <= Len(ev.mirrors)
              /\ trace[n].url = MirrorUrl(ev.mirrors[n], FetchHash(ev.env).value)
        /\ \A n \in DOMAIN trace : trace[n].ok => n = Len(trace)
        /\ MainFetches(trace) # {} <=> ~\E n \in mf : trace[n].ok
        /\ MainFetches(trace) \subseteq {Len(trace)}
        /\ ev.res.kind = "Error" <=>
              \E n \in MainFetches(trace) : ~trace[n].ok
        /\ ev.res.kind \in {"return", "Error"}

\* C33 as stated: builtinFetchurl tries the hashed mirrors, in configured
\* order, only when outputHashMode is "flat", stops at the first mirror whose
\* fetch succeeds, and fetches the main URL if and only if no mirror fetch
\* succeeded; an error from a mirror never propagates, one from the main URL
\* always does.
C33_Original ==
    ev.op = "builtinFetchurl" => FetchOrder

\* C33, amended: the same when the attributes out, url and outputHashMode
\* are present; when one of them is missing builtinFetchurl raises an error
\* without fetching anything, the main URL included.
C33_Fetchurl ==
    ev.op = "builtinFetchurl" =>
        IF {"out", "url", "outputHashMode"} \subseteq DOMAIN ev.env
        THEN FetchOrder
        ELSE ev.res = FetchResult("Error", <<>>)

C33_Witness ==
    /\ ev.op = "builtinFetchurl"
    /\ Len(ev.res.trace) = 3
    /\ ~ev.res.trace[1].ok /\ ~ev.res.trace[2].ok /\ ~ev.res.trace[3].ok
    /\ ev.res.kind = "Error"
    /\ ev.mirrors = <<"m2", "m1/">>

(***************************************************************************)
(* SpecSubst: getDefaultSubstituters.  ev holds the settings, what         *)
(* openStore answers for each URI, the function-local static list once it  *)
(* is initialised, every call of openStore made so far, the warnings, and  *)
(* what the last call returned.  A store is its URI and its priority.      *)
(***************************************************************************)
SubstUris == {"u1", "u2", "u3"}
SubstPriorities == {10, 20}
MaxSubstCalls == 3
UriLists ==
    {<<>>} \cup {<<u>> : u \in SubstUris}
           \cup {<<u, v>> : u \in SubstUris, v \in SubstUris}

\* addStore(uri) on the state of the initialiser
addStore(st, uri, opens) ==
    IF uri \in st.done THEN st
    ELSE IF opens[uri] = 0
    THEN [st EXCEPT !.done = @ \cup {uri}, !.opened = Append(@, uri),
                    !.warned = Append(@, uri)]
    ELSE [st EXCEPT !.done = @ \cup {uri}, !.opened = Append(@, uri),
                    !.stores = Append(@, [uri |-> uri, priority |-> opens[uri]])]

RECURSIVE AddStores(_, _, _, _)
AddStores(st, uris, k, opens) ==
    IF k > Len(uris) THEN st
    ELSE AddStores(addStore(st, uris[k], opens), uris, k + 1, opens)

SortStoresNone(stores) == stores

\* std::list::sort by a->priority < b->priority: a stable sort
RECURSIVE SortStores(_)
SortStores(stores) ==
    IF stores = <<>> THEN <<>>
    ELSE LET rest == SortStores(SubSeq(stores, 1, Len(stores) - 1))
             x == stores[Len(stores)]
             before == {i \in DOMAIN rest : rest[i].priority <= x.priority}
             n == Cardinality(before)
         IN  SubSeq(rest, 1, n) \o <<x>> \o SubSeq(rest, n + 1, Len(rest))

\* the initialiser of the static list
InitStores(substituters, extraSubstituters, opens) ==
    LET st0 == [done |-> {}, opened |-> <<>>, warned |-> <<>>, stores |-> <<>>]
        st1 == AddStores(st0, substituters, 1, opens)
        st2 == AddStores(st1, extraSubstituters, 1, opens)
    IN  [st2 EXCEPT !.stores = SortStores(@)]

InitSubst == IdleStores /\ ev = NoEval /\ AuxIdle

\* the first call of getDefaultSubstituters: the static list is initialised
SubstFirstCall ==
    /\ ev = NoEval
    /\ \E substituters \in UriLists, extraSubstituters \in UriLists,
          opens \in [SubstUris -> SubstPriorities \cup {0}] :
          LET st == InitStores(substituters, extraSubstituters, opens)
          IN  ev' = [op |-> "getDefaultSubstituters",
                     substituters |-> substituters,
                     extraSubstituters |-> extraSubstituters,
                     opens |-> opens, static |-> st.stores,
                     opened |-> st.opened, warned |-> st.warned,
                     calls |-> 1, first |-> st.stores, res |-> st.stores]
    /\ UNCHANGED storeVars

\* a later call: the static list is returned
SubstLaterCall ==
    /\ ev.op = "getDefaultSubstituters"
    /\ ev.calls < MaxSubstCalls
    /\ ev' = [ev EXCEPT !.calls = @ + 1, !.res = ev.static]
    /\ UNCHANGED storeVars

NextSubst == SubstFirstCall \/ SubstLaterCall

SpecSubst == InitSubst /\ [][NextSubst]_vars

\* the configured URIs, substituters before extra-substituters
SubstConfigured == ev.substituters \o ev.extraSubstituters

\* the place of a URI in the configuration
SubstIndex(uri) ==
    CHOOSE i \in DOMAIN SubstConfigured :
        /\ SubstConfigured[i] = uri
        /\ \A j \in 1..(i - 1) : SubstConfigured[j] # uri

\* C34: getDefaultSubstituters returns each distinct configured URI at most
\* once, skips with a warning every URI that fails to open, orders the
\* stores by non-decreasing priority with ties in configuration order
\* (substituters before extra-substituters), and returns the same list on
\* every later call without opening any store again.
C34_Substituters ==
    ev.op = "getDefaultSubstituters" =>
        LET conf == {SubstConfigured[i] : i \in DOMAIN SubstConfigured}
            res == ev.res
        IN  /\ \A i, j \in DOMAIN res : res[i].uri = res[j].uri => i = j
            /\ {res[i].uri : i \in DOMAIN res} = {u \in conf : ev.opens[u] # 0}
            /\ {ev.warned[i] : i \in DOMAIN ev.warned} = {u \in conf : ev.opens[u] = 0}
            /\ \A i \in DOMAIN res : res[i].priority = ev.opens[res[i].uri]
            /\ \A i, j \in DOMAIN res :
                  i < j => \/ res[i].priority < res[j].priority
                           \/ /\ res[i].priority = res[j].priority
                              /\ SubstIndex(res[i].uri) < SubstIndex(res[j].uri)
            /\ res = ev.first
            /\ Len(ev.opened) = Cardinality(conf)
            /\ \A i, j \in DOMAIN ev.opened : ev.opened[i] = ev.opened[j] => i = j

C34_Witness ==
    /\ ev.op = "getDefaultSubstituters"
    /\ ev.calls = 2
    /\ ev.substituters = <<"u1", "u2">>
    /\ ev.extraSubstituters = <<"u2", "u3">>
    /\ ev.opens = [u \in SubstUris |-> IF u = "u1" THEN 20 ELSE IF u = "u2" THEN 0 ELSE 10]
    /\ ev.res = <<[uri |-> "u3", priority |-> 10], [uri |-> "u1", priority |-> 20]>>
    /\ ev.warned = <<"u2">>

(***************************************************************************)
(* SpecCb: the control flow of one asynchronous Store::queryPathInfo and   *)
(* the calls it makes of its callback.  ev holds what the caches and the   *)
(* remote will answer, the place of the call, the number of times the      *)
(* callback was invoked and what it received.                              *)
(***************************************************************************)
CbLruAnswers == {"miss", "stale", "exists", "absent"}
CbDiskAnswers == {"oUnknown", "oInvalid", "oValid", "oValidOtherPath"}
CbRemoteAnswers == {"empty", "info", "otherPath", "trailing", "ioError"}

\* callback(value) or callback.rethrow(): one more invocation
Invoke(e, got) == [e EXCEPT !.pc = "done", !.called = @ + 1, !.got = got]

InitCb == IdleStores /\ ev = NoEval /\ AuxIdle

\* queryPathInfo(pathOrCa, callback) is called
CbStart ==
    /\ ev = NoEval
    /\ \E l \in CbLruAnswers, diskCache \in BOOLEAN, d \in CbDiskAnswers,
          ssh_ \in BOOLEAN, r \in CbRemoteAnswers :
          ev' = [op |-> "queryPathInfo", lru |-> l, diskCache |-> diskCache,
                 disk |-> d, legacySsh |-> ssh_, remote |-> r,
                 pc |-> "lru", called |-> 0, got |-> "none", fut |-> "none"]
    /\ UNCHANGED storeVars

\* pathInfoCache.get(hashPart) and isKnownNow()
CbLru ==
    /\ ev # NoEval /\ ev.op = "queryPathInfo" /\ ev.pc = "lru"
    /\ ev' = IF ev.lru = "exists" THEN Invoke(ev, "value")
             ELSE IF ev.lru = "absent" THEN Invoke(ev, "InvalidPath")
             ELSE [ev EXCEPT !.pc = IF ev.diskCache THEN "disk" ELSE "uncached"]
    /\ UNCHANGED storeVars

\* diskCache->lookupNarInfo(getUri(), hashPart)
CbDisk ==
    /\ ev # NoEval /\ ev.op = "queryPathInfo" /\ ev.pc = "disk"
    /\ ev' = IF ev.disk = "oUnknown" THEN [ev EXCEPT !.pc = "uncached"]
             ELSE IF ev.disk = "oValid" THEN Invoke(ev, "value")
             ELSE Invoke(ev, "InvalidPath")
    /\ UNCHANGED storeVars

\* queryPathInfoUncached: LegacySSHStore's, or one of another store that
\* hands over what it was told
CbUncached ==
    /\ ev # NoEval /\ ev.op = "queryPathInfo" /\ ev.pc = "uncached"
    /\ ev' = IF ev.remote = "ioError"
             THEN [ev EXCEPT !.pc = "continuation", !.fut = "exception"]
             ELSE IF ev.remote = "empty"
             THEN [ev EXCEPT !.pc = "continuation", !.fut = "nullptr"]
             ELSE IF ev.legacySsh /\ ev.remote \in {"otherPath", "trailing"}
             THEN [ev EXCEPT !.pc = "aborted"]
             ELSE [ev EXCEPT !.pc = "continuation",
                             !.fut = IF ev.remote = "otherPath" THEN "otherPath"
                                     ELSE "info"]
    /\ UNCHANGED storeVars

\* the continuation queryPathInfo gave to queryPathInfoUncached
CbContinuation ==
    /\ ev # NoEval /\ ev.op = "queryPathInfo" /\ ev.pc = "continuation"
    /\ ev' = IF ev.fut = "exception" THEN Invoke(ev, "Error")
             ELSE IF ev.fut \in {"nullptr", "otherPath"}
             THEN Invoke(ev, "InvalidPath")
             ELSE Invoke(ev, "value")
    /\ UNCHANGED storeVars

NextCb == CbStart \/ CbLru \/ CbDisk \/ CbUncached \/ CbContinuation

SpecCb == InitCb /\ [][NextCb]_vars

\* C35: every call of the asynchronous queryPathInfo invokes its callback
\* exactly once, with a result or an error, on the LRU hit, the disk-cache
\* hit, the backend answer and the backend failure: never twice, and never
\* dropped once the call has ended.
C35_CallbackOnce ==
    (ev # NoEval /\ ev.op = "queryPathInfo") =>
        /\ ev.called <= 1
        /\ ev.pc \in {"done", "aborted"} =>
              ev.called = 1 /\ ev.got \in {"value", "InvalidPath", "Error"}

(***************************************************************************)
(* The progress counters of copyPaths (SpecCopy).                          *)
(***************************************************************************)
\* C37: throughout copyPaths every missing path is counted at most once:
\* nrDone + nrFailed is at most the number of missing paths, nrRunning is
\* the number of workers inside copyStorePath, and when copyPaths returns
\* normally nrRunning is 0 and nrDone + nrFailed is the number of missing
\* paths.
C37_Counters ==
    cp.pc \in {"graph", "returned", "raised"} =>
        /\ cp.nrDone + cp.nrFailed <= Cardinality(cp.missing)
        /\ cp.nrRunning = Cardinality({n \in Ids : cp.npc[n] = "copying"})
        /\ cp.pc = "returned" =>
              /\ cp.nrRunning = 0
              /\ cp.nrDone + cp.nrFailed = Cardinality(cp.missing)

(***************************************************************************)
(* SpecPm: the workers of the pool inside the two lambdas of copyPaths and *)
(* their calls on pathsMap, a std::map local to copyPaths that the lambdas *)
(* capture by reference.  A call of insert_or_assign takes time: it is a   *)
(* step that begins it and a step that ends it.  cp holds, for each        *)
(* worker, where it is and its node, and for each node the lambda due.     *)
(***************************************************************************)
PmWorkers == {"w1", "w2"}

\* the workers inside pathsMap.insert_or_assign
Inserting(c) == {w \in PmWorkers : c.wpc[w] = "insert_or_assign"}

InitPm ==
    /\ now = 0
    /\ hasDiskCache = FALSE
    /\ assertsPath = FALSE
    /\ backend = [h \in HashParts |-> NoPath]
    /\ lru = <<>>
    /\ disk = [h \in HashParts |-> NoRow]
    /\ lastOp = NoOp
    /\ absentRec = {}
    /\ negLeft = [h \in HashParts |-> 0]
    /\ crashed = FALSE
    /\ qv = QvIdle
    /\ ev = NoEval
    /\ AuxIdle
    /\ \E missing \in (SUBSET Ids) \ {{}} :
          cp = [pc |-> "pool",
                due |-> [n \in Ids |-> IF n \in missing THEN "getEdges" ELSE "none"],
                wpc |-> [w \in PmWorkers |-> "idle"],
                node |-> [w \in PmWorkers |-> "a"],
                lambda |-> [w \in PmWorkers |-> "none"],
                overlap |-> FALSE]

\* a thread of the pool calls the lambda due for node n; it starts with
\* srcStore->queryPathInfo and the path for the destination
PmCall(w, n) ==
    /\ cp.pc = "pool"
    /\ cp.wpc[w] = "idle"
    /\ cp.due[n] \in {"getEdges", "processNode"}
    /\ cp' = [cp EXCEPT !.wpc[w] = "queryPathInfo", !.node[w] = n,
                        !.lambda[w] = cp.due[n], !.due[n] = "running"]
    /\ UNCHANGED <<cacheVars, qv, ev, auxVars>>

\* pathsMap.insert_or_assign(storePath, storePathForDst) begins
PmInsertBegin(w) ==
    /\ cp.pc = "pool"
    /\ cp.wpc[w] = "queryPathInfo"
    /\ cp' = [cp EXCEPT !.wpc[w] = "insert_or_assign",
                        !.overlap = @ \/ Inserting(cp) # {}]
    /\ UNCHANGED <<cacheVars, qv, ev, auxVars>>

\* pathsMap.insert_or_assign ends; the lambda goes on to isValidPath
PmInsertEnd(w) ==
    /\ cp.pc = "pool"
    /\ cp.wpc[w] = "insert_or_assign"
    /\ cp' = [cp EXCEPT !.wpc[w] = "isValidPath"]
    /\ UNCHANGED <<cacheVars, qv, ev, auxVars>>

\* the lambda returns: after getEdges the node is due for processNode
PmReturn(w) ==
    /\ cp.pc = "pool"
    /\ cp.wpc[w] = "isValidPath"
    /\ cp' = [cp EXCEPT !.wpc[w] = "idle",
                        !.due[cp.node[w]] = IF cp.lambda[w] = "getEdges"
                                            THEN "processNode" ELSE "done"]
    /\ UNCHANGED <<cacheVars, qv, ev, auxVars>>

NextPm ==
    \/ \E w \in PmWorkers, n \in Ids : PmCall(w, n)
    \/ \E w \in PmWorkers : PmInsertBegin(w)
    \/ \E w \in PmWorkers : PmInsertEnd(w)
    \/ \E w \in PmWorkers : PmReturn(w)

SpecPm == InitPm /\ [][NextPm]_vars

\* C36: pathsMap is never updated by two workers at the same time: every
\* insert_or_assign into it excludes every other access to it.
C36_Exclusive ==
    cp.pc = "pool" =>
        /\ Cardinality(Inserting(cp)) <= 1
        /\ ~cp.overlap

(***************************************************************************)
(* SpecLinks: Store::followLinksToStore on a filesystem.  A path is "p"    *)
(* (inside the store directory) or one of the paths outside it; a path     *)
(* outside is a symlink to another path or is not a symlink.  ev holds the *)
(* filesystem, the variable path of the loop, the parity of the turns of   *)
(* the loop taken so far and the place of the call.                        *)
(***************************************************************************)
OutsidePaths == {"x", "y", "z"}
LinkPaths == OutsidePaths \cup {"p"}
NotALink == "-"
Filesystems == [OutsidePaths -> LinkPaths \cup {NotALink}]

\* Store::isInStore
isInStore(path) == path = "p"

\* isLink(path)
isLink(fs, path) == path \in DOMAIN fs /\ fs[path] # NotALink

\* absPath(readLink(path), dirOf(path))
readLink(fs, path) == fs[path]

InitLinks == IdleStores /\ ev = NoEval /\ AuxIdle

\* followLinksToStore(_path) is called: path = absPath(_path)
FlCall ==
    /\ ev = NoEval
    /\ \E fs \in Filesystems, path \in LinkPaths :
          ev' = [op |-> "followLinksToStore", fs |-> fs, start |-> path,
                 path |-> path, pc |-> "while", turn |-> 0]
    /\ UNCHANGED storeVars

\* one turn of the while loop: the link is followed
FlFollow ==
    /\ ev.op = "followLinksToStore" /\ ev.pc = "while"
    /\ ~isInStore(ev.path) /\ isLink(ev.fs, ev.path)
    /\ ev' = [ev EXCEPT !.path = readLink(ev.fs, ev.path), !.turn = 1 - @]
    /\ UNCHANGED storeVars

\* the loop ends: the path is returned or NotInStore is thrown
FlEnd ==
    /\ ev.op = "followLinksToStore" /\ ev.pc = "while"
    /\ isInStore(ev.path) \/ ~isLink(ev.fs, ev.path)
    /\ ev' = [ev EXCEPT !.pc = IF isInStore(ev.path) THEN "returned"
                               ELSE "NotInStore"]
    /\ UNCHANGED storeVars

NextLinks == FlCall \/ FlFollow \/ FlEnd

SpecLinks == InitLinks /\ [][NextLinks]_vars

\* the thread in followLinksToStore keeps running
SpecLinksFair == SpecLinks /\ WF_vars(FlFollow) /\ WF_vars(FlEnd)

\* C39: followLinksToStore terminates for every finite filesystem and every
\* start path: it returns a path inside the store directory or raises
\* NotInStore, also when the symlinks outside the store form a cycle.
C39_Terminates ==
    /\ [](ev.op = "followLinksToStore" /\ ev.pc = "returned" => isInStore(ev.path))
    /\ (ev.op = "followLinksToStore") ~>
          (ev.op = "followLinksToStore" /\ ev.pc \in {"returned", "NotInStore"})

(***************************************************************************)
(* SpecRemote: the path info LegacySSHStore::queryPathInfoUncached makes   *)
(* of a remote's answer (its references, which may name the path itself,   *)
(* and its content-address string; the empty string is also what a         *)
(* registration stream gives, which has no content address), and           *)
(* isContentAddressed / checkSignatures on that info.                      *)
(***************************************************************************)
SelfPath == "self"

\* the info built from the answer: setReferencesPossiblyToSelf on a new
\* ValidPathInfo, and the parsed content address
RemoteInfo(path, refs, ca) ==
    LET x == setReferencesPossiblyToSelf(NoRefs, SelfPath, refs)
    IN  [name |-> "foo", ca |-> ca, references |-> x.references,
         hasSelfReference |-> x.hasSelfReference, path |-> path,
         narKnown |-> TRUE, sigs |-> {}]

InitRemote == IdleStores /\ ev = NoEval /\ AuxIdle

CallRemoteInfo ==
    /\ ev = NoEval
    /\ \E rawCa \in CaStrings, refs \in SUBSET (RefPaths \cup {SelfPath}) :
          LET ca == parseContentAddressOpt(rawCa)
          IN  IF ca.kind # "value" \/ (ca.kind = "value" /\ ca.value.kind = "ipfs")
              THEN ev' = [op |-> "remoteInfo", rawCa |-> rawCa, refs |-> refs,
                          parsed |-> FALSE]
              ELSE \E path \in PathsFor("foo", ca.value, refs \ {SelfPath},
                                        SelfPath \in refs) :
                      LET info == RemoteInfo(path, refs, ca.value)
                      IN  ev' = [op |-> "remoteInfo", rawCa |-> rawCa,
                                 refs |-> refs, parsed |-> TRUE, info |-> info,
                                 isContentAddressed |->
                                     isContentAddressed(StoreDir, info),
                                 checkSignatures |->
                                     checkSignatures(StoreDir, info, Keys)]
    /\ UNCHANGED storeVars

NextRemote == CallRemoteInfo

SpecRemote == InitRemote /\ [][NextRemote]_vars

\* C40: no assertion of the content-address path computation is reachable
\* from data a remote or a registration stream supplies: on every path info
\* made from such data isContentAddressed and checkSignatures return a value
\* (or raise an error) and do not fail an assert.
C40_NoAssertion ==
    (ev.op = "remoteInfo" /\ ev.parsed) =>
        /\ ev.isContentAddressed.kind # "abort"
        /\ ev.checkSignatures.kind # "abort"

====
